---- MODULE Spec2Model ----
(***************************************************************************)
(* Verification model of the go-basic repository: the sorting and          *)
(* searching functions, the slice-backed Stack and Queue, and the          *)
(* BinaryTree.  Each program of the repository is a standalone main, so    *)
(* each gets its own specification over its own variables; the variables   *)
(* of the other programs stay at their initial value.                      *)
(***************************************************************************)
EXTENDS Integers, Sequences, FiniteSets, TLC

VARIABLES
    sortInput,     \* sorting.go: the slice handed to a sort function
    sortResult,    \* sorting.go: the slice after the call (in place or returned)
    sortAlg,       \* sorting.go: which sort function main has run
    searchArr,     \* part_003: the slice handed to a search function
    searchTarget,  \* part_003: the target
    searchResult,  \* part_003: the returned index, or the outcome of a search that can panic
    searchAlg,     \* part_003: which search function main has run
    s_items,       \* stack.go: Stack.items
    s_hist,        \* stack.go: the calls made on the stack and what they returned
    q_items,       \* part_004: Queue.items
    q_hist,        \* part_004: the calls made on the queue and what they returned
    heap,          \* tree.go: the allocated TreeNodes, heap[p] for pointer p
    Root,          \* tree.go: BinaryTree.Root, 0 is nil
    inserted,      \* tree.go: the values handed to Insert, in call order
    treeMode,      \* tree.go: "free" (any caller) or "main" (the demo of main)
    searched,       \* tree.go: the last Search call, <<value, result>>, or <<>>
    vertices, \* graph.go: Graph.vertices, the map from vertex to adjacency list
    traversal, \* graph.go: the last BFS or DFS call and its result, or <<>>
    ll_nodes, \* sorting.go (linked list): the allocated Nodes, ll_nodes[p] for pointer p
    head, \* sorting.go (linked list): LinkedList.head, 0 is nil
    ll_ref, \* the reference sequence: Insert appends, Delete removes the first occurrence
    ll_last, \* the last Delete call, [data, ret, before], or <<>>
    ll_calls, \* the number of Insert and Delete calls made
    text, \* sorting.go (strings): the text, or s1 of LevenshteinDistance, as bytes
    pattern, \* sorting.go (strings): the pattern, or s2 of LevenshteinDistance, as bytes
    strAlg, \* sorting.go (strings): which string function main has run
    strResult, \* sorting.go (strings): what the function returned
    instance, \* singleton.go: the package variable instance, 0 for nil
    onceDone, \* singleton.go: once has run its function
    onceM, \* singleton.go: the goroutine holding the mutex of once, 0 for none
    objects, \* singleton.go: the Singleton objects allocated
    initRuns, \* singleton.go: how often the function given to once.Do ran
    sg_pc, \* singleton.go: where each goroutine is
    sg_ref, \* singleton.go: the reference each goroutine got from GetInstance
    sg_tmp, \* singleton.go: the count each goroutine read in s.count++
    sg_val, \* singleton.go: what IncrementCount returned to each goroutine, 0 before
    returned, \* singleton.go: every value GetInstance has returned
    m_pc, \* concurrency.go: the statement main is at
    wgCounter, \* concurrency.go: the counter of wg
    pn_pc, \* concurrency.go: where each printNumbers goroutine is
    pn_i, \* concurrency.go: the loop variable of each printNumbers goroutine
    printed, \* concurrency.go: the numbers printNumbers has printed
    numbersClosed, \* concurrency.go: the channel numbers is closed
    closes, \* concurrency.go: how often close(ch) has closed the channel
    gen_pc, \* concurrency.go: where generateNumbers is
    gen_i, \* concurrency.go: the loop variable of generateNumbers
    received, \* concurrency.go: the numbers the range loop of main has printed
    bufferedCh, \* concurrency.go: the buffer of bufferedCh
    bufferedOut, \* concurrency.go: the values main has printed from bufferedCh
    snd_pc, \* concurrency.go: where each anonymous sender goroutine is
    sel_i, \* concurrency.go: the loop variable of the select loop
    messages, \* concurrency.go: the messages the select loop has printed
    e_numbers, \* error-handling.go: the slice numbers of main
    e_x, \* error-handling.go: the argument main gives calculateSquareRoot
    e_pc, \* error-handling.go: the part of main that runs
    e_i, \* error-handling.go: the loop variable of main
    e_stmt, \* error-handling.go: the next statement of the panic and recover example
    deferred, \* error-handling.go: the deferred functions of main, last deferred first
    panicking, \* error-handling.go: the value of the panic under way, or nil
    e_recovered, \* error-handling.go: what recover() returned in the deferred function
    e_out, \* error-handling.go: the lines printed
    l_heap, \* chain_of_responsibility.go: the logger objects allocated
    firstLogger, \* chain_of_responsibility.go: firstLogger of the LoggerChain, 0 before NewLoggerChain
    l_entry, \* chain_of_responsibility.go: the entry of the last Log call
    l_result, \* chain_of_responsibility.go: what the last Log call returned
    l_calls, \* chain_of_responsibility.go: Log calls made
    observers, \* part_002: observers of the WeatherStation
    temperature, \* part_002: temperature of the WeatherStation
    w_updates, \* part_002: the Update calls of the last SetTemperature, in order
    w_last, \* part_002: the last call made on the station and the observers before it
    w_calls, \* part_002: calls made on the station
    activities, \* part_003: the slice the caller hands to ActivitySelection
    act_before, \* part_003: its elements before the call
    selected, \* part_003: what ActivitySelection returned
    act_alg, \* part_003: the function that has run
    d_graph, \* part_003: the graph handed to DijkstraShortestPath, vertex v at index v
    d_start, \* part_003: the start vertex
    d_result, \* part_003: the dist returned and the entries popped and not skipped
    d_done, \* part_003: DijkstraShortestPath has returned
    b_s, \* stack.go: the string handed to isValidBrackets, one character per element
    b_result, \* stack.go: what isValidBrackets returned and how many characters it had ranged over
    b_done, \* stack.go: isValidBrackets has returned
    computers, \* part_001: the Computer objects allocated, a *Computer is an index
    builder, \* part_001: the concreteComputerBuilder main made, held by the Director
    built \* part_001: the calls made on the Director and the builder: the *Computer returned and its fields at the return

sortVars   == <<sortInput, sortResult, sortAlg>>
searchVars == <<searchArr, searchTarget, searchResult, searchAlg>>
contVars   == <<s_items, s_hist, q_items, q_hist>>
treeVars   == <<heap, Root, inserted, treeMode, searched>>
graphVars == <<vertices, traversal>>
listVars == <<ll_nodes, head, ll_ref, ll_last, ll_calls>>
strVars == <<text, pattern, strAlg, strResult>>
singleVars == <<instance, onceDone, onceM, objects, initRuns, sg_pc, sg_ref, sg_tmp, sg_val, returned>>
concVars == <<m_pc, wgCounter, pn_pc, pn_i, printed, numbersClosed, closes, gen_pc, gen_i, received, bufferedCh, bufferedOut, snd_pc, sel_i, messages>>
errVars == <<e_numbers, e_x, e_pc, e_i, e_stmt, deferred, panicking, e_recovered, e_out>>
logVars == <<l_heap, firstLogger, l_entry, l_result, l_calls>>
obsVars == <<observers, temperature, w_updates, w_last, w_calls>>
greedyVars == <<activities, act_before, selected, act_alg>>
dijVars == <<d_graph, d_start, d_result, d_done>>
brVars == <<b_s, b_result, b_done>>
bldVars == <<computers, builder, built>>
vars == <<sortVars, searchVars, contVars, treeVars, graphVars, listVars, strVars, singleVars, concVars, errVars, logVars, obsVars, greedyVars, dijVars, brVars, bldVars>>

\* the variables of the other programs, which a step of a program leaves alone
sortOthers   == <<searchVars, contVars, treeVars, graphVars, listVars, strVars, singleVars, concVars, errVars, logVars, obsVars, greedyVars, dijVars, brVars, bldVars>>
searchOthers == <<sortVars, contVars, treeVars, graphVars, listVars, strVars, singleVars, concVars, errVars, logVars, obsVars, greedyVars, dijVars, brVars, bldVars>>
contOthers   == <<sortVars, searchVars, treeVars, graphVars, listVars, strVars, singleVars, concVars, errVars, logVars, obsVars, greedyVars, dijVars, brVars, bldVars>>
treeOthers   == <<sortVars, searchVars, contVars, graphVars, listVars, strVars, singleVars, concVars, errVars, logVars, obsVars, greedyVars, dijVars, brVars, bldVars>>
graphOthers  == <<sortVars, searchVars, contVars, treeVars, listVars, strVars, singleVars, concVars, errVars, logVars, obsVars, greedyVars, dijVars, brVars, bldVars>>
listOthers == <<sortVars, searchVars, contVars, treeVars, graphVars, strVars, singleVars, concVars, errVars, logVars, obsVars, greedyVars, dijVars, brVars, bldVars>>
strOthers == <<sortVars, searchVars, contVars, treeVars, graphVars, listVars, singleVars, concVars, errVars, logVars, obsVars, greedyVars, dijVars, brVars, bldVars>>
singleOthers == <<sortVars, searchVars, contVars, treeVars, graphVars, listVars, strVars, concVars, errVars, logVars, obsVars, greedyVars, dijVars, brVars, bldVars>>
concOthers == <<sortVars, searchVars, contVars, treeVars, graphVars, listVars, strVars, singleVars, errVars, logVars, obsVars, greedyVars, dijVars, brVars, bldVars>>
errOthers == <<sortVars, searchVars, contVars, treeVars, graphVars, listVars, strVars, singleVars, concVars, logVars, obsVars, greedyVars, dijVars, brVars, bldVars>>
logOthers == <<sortVars, searchVars, contVars, treeVars, graphVars, listVars, strVars, singleVars, concVars, errVars, obsVars, greedyVars, dijVars, brVars, bldVars>>
obsOthers == <<sortVars, searchVars, contVars, treeVars, graphVars, listVars, strVars, singleVars, concVars, errVars, logVars, greedyVars, dijVars, brVars, bldVars>>
greedyOthers == <<sortVars, searchVars, contVars, treeVars, graphVars, listVars, strVars, singleVars, concVars, errVars, logVars, obsVars, dijVars, brVars, bldVars>>
dijOthers == <<sortVars, searchVars, contVars, treeVars, graphVars, listVars, strVars, singleVars, concVars, errVars, logVars, obsVars, greedyVars, brVars, bldVars>>
brOthers == <<sortVars, searchVars, contVars, treeVars, graphVars, listVars, strVars, singleVars, concVars, errVars, logVars, obsVars, greedyVars, dijVars, bldVars>>
bldOthers == <<sortVars, searchVars, contVars, treeVars, graphVars, listVars, strVars, singleVars, concVars, errVars, logVars, obsVars, greedyVars, dijVars, brVars>>

\* ---------------------------------------------------------------- bounds
MaxLen     == 4    \* longest slice handed to a sort or search function
MaxVal     == 2    \* slice elements and targets are drawn from 0..MaxVal
MaxOps     == 5    \* calls made on the stack and the queue together
MaxItem    == 2    \* pushed and enqueued items are drawn from 1..MaxItem
MaxInserts == 4    \* Insert calls of a free caller of the tree
MaxTreeVal == 3    \* a free caller inserts and searches values of 1..MaxTreeVal
MaxVertex  == 2    \* graph vertices are drawn from 0..MaxVertex
MaxEdges   == 3    \* AddEdge calls made on the graph
MaxListCalls == 5  \* Insert and Delete calls made on the linked list
MaxListVal == 2    \* list data is drawn from 1..MaxListVal
MaxText    == 4    \* longest text handed to a string function
MaxPattern == 3    \* longest pattern handed to a string function
MaxChar    == 2    \* texts and patterns use the first MaxChar capital letters
NumGoroutines == 3 \* goroutines calling GetInstance concurrently
MaxNumbers == 2    \* longest slice numbers of a free run of error-handling.go
MaxNumber  == 2    \* its elements are drawn from 0..MaxNumber, the argument from -MaxNumber..MaxNumber
MaxMessage == 2    \* longest Message of a LogEntry
MaxLevel   == 3    \* the Level of a LogEntry is drawn from -1..MaxLevel
MaxLogCalls == 3   \* Log calls made on the chain
MaxStationCalls == 4 \* calls made on the WeatherStation
MaxObserver == 2   \* observers are drawn from 1..MaxObserver
MaxTemp     == 1   \* temperatures are drawn from 1..MaxTemp + 1
MaxActivities == 3 \* longest slice handed to ActivitySelection
MaxTime    == 2    \* Start and End are drawn from 0..MaxTime
MaxDVertices == 2  \* most vertices of a graph handed to DijkstraShortestPath
MaxDEdges  == 2    \* most edges of such a graph
MaxDWeight == 1    \* edge weights are drawn from 0..MaxDWeight
MaxBrackets == 4   \* longest free string handed to isValidBrackets
MaxBuilds == 4     \* most calls made on the Director and its builder
MainGetCalls == 2  \* main calls GetInstance twice: singleton1, singleton2

Values     == 0..MaxVal
Items      == 1..MaxItem
TreeValues == 1..MaxTreeVal
Vertices   == 0..MaxVertex
ListValues == 1..MaxListVal
Alphabet   == 65..(64 + MaxChar)

RECURSIVE SeqsUpTo(_, _)
SeqsUpTo(S, n) ==
    IF n = 0 THEN {<<>>}
    ELSE LET shorter == SeqsUpTo(S, n - 1)
         IN  shorter \cup {Append(s, x) : s \in {t \in shorter : Len(t) = n - 1}, x \in S}

\* ------------------------------------------------- Go slices, 0-based
At(arr, i)      == arr[i + 1]
Set(arr, i, v)  == [arr EXCEPT ![i + 1] = v]
Swap(arr, i, j) == [arr EXCEPT ![i + 1] = arr[j + 1], ![j + 1] = arr[i + 1]]
\* arr[lo:hi]
Slice(arr, lo, hi) == SubSeq(arr, lo + 1, hi)

\* ------------------------------------------------------------ sorting.go
RECURSIVE bubbleInner(_, _, _, _, _)
bubbleInner(arr, n, i, j, swapped) ==
    IF j < n - i - 1
    THEN IF At(arr, j) > At(arr, j + 1)
         THEN bubbleInner(Swap(arr, j, j + 1), n, i, j + 1, TRUE)
         ELSE bubbleInner(arr, n, i, j + 1, swapped)
    ELSE <<arr, swapped>>

RECURSIVE bubbleOuter(_, _, _)
bubbleOuter(arr, n, i) ==
    IF i < n - 1
    THEN LET r == bubbleInner(arr, n, i, 0, FALSE)
         IN  IF ~r[2] THEN r[1] ELSE bubbleOuter(r[1], n, i + 1)
    ELSE arr

BubbleSort(arr) == bubbleOuter(arr, Len(arr), 0)

RECURSIVE partitionLoop(_, _, _, _, _)
partitionLoop(arr, pivot, i, j, high) ==
    IF j < high
    THEN IF At(arr, j) <= pivot
         THEN partitionLoop(Swap(arr, i + 1, j), pivot, i + 1, j + 1, high)
         ELSE partitionLoop(arr, pivot, i, j + 1, high)
    ELSE <<arr, i>>

\* returns <<arr after partitioning, pivot index>>
partition(arr, low, high) ==
    LET pivot == At(arr, high)
        r     == partitionLoop(arr, pivot, low - 1, low, high)
        i     == r[2]
    IN  <<Swap(r[1], i + 1, high), i + 1>>

RECURSIVE quickSortHelper(_, _, _)
quickSortHelper(arr, low, high) ==
    IF low < high
    THEN LET p  == partition(arr, low, high)
             pi == p[2]
         IN  quickSortHelper(quickSortHelper(p[1], low, pi - 1), pi + 1, high)
    ELSE arr

QuickSort(arr) == quickSortHelper(arr, 0, Len(arr) - 1)

RECURSIVE mergeLoop(_, _, _, _, _)
mergeLoop(left, right, i, j, result) ==
    IF i < Len(left) /\ j < Len(right)
    THEN IF At(left, i) <= At(right, j)
         THEN mergeLoop(left, right, i + 1, j, Append(result, At(left, i)))
         ELSE mergeLoop(left, right, i, j + 1, Append(result, At(right, j)))
    ELSE <<result, i, j>>

\* merge without the append of right[j:]
mergeDropRight(left, right) ==
    LET r == mergeLoop(left, right, 0, 0, <<>>)
    IN  r[1] \o Slice(left, r[2], Len(left))

merge(left, right) ==
    LET r == mergeLoop(left, right, 0, 0, <<>>)
    IN  (r[1] \o Slice(left, r[2], Len(left))) \o Slice(right, r[3], Len(right))

RECURSIVE MergeSort(_)
MergeSort(arr) ==
    IF Len(arr) <= 1
    THEN arr
    ELSE LET mid   == Len(arr) \div 2
             left  == MergeSort(Slice(arr, 0, mid))
             right == MergeSort(Slice(arr, mid, Len(arr)))
         IN  merge(left, right)

RECURSIVE insertionShift(_, _, _)
insertionShift(arr, key, j) ==
    IF j >= 0 /\ At(arr, j) > key
    THEN insertionShift(Set(arr, j + 1, At(arr, j)), key, j - 1)
    ELSE Set(arr, j + 1, key)

RECURSIVE insertionLoop(_, _)
insertionLoop(arr, i) ==
    IF i < Len(arr)
    THEN insertionLoop(insertionShift(arr, At(arr, i), i - 1), i + 1)
    ELSE arr

InsertionSort(arr) == insertionLoop(arr, 1)

isSorted(arr) == \A i \in 1..(Len(arr) - 1) : ~(At(arr, i) < At(arr, i - 1))


RunBubbleSort ==
    /\ sortAlg = "none"
    /\ sortResult' = BubbleSort(sortInput)
    /\ sortAlg' = "BubbleSort"
    /\ UNCHANGED sortInput
    /\ UNCHANGED sortOthers

RunQuickSort ==
    /\ sortAlg = "none"
    /\ sortResult' = QuickSort(sortInput)
    /\ sortAlg' = "QuickSort"
    /\ UNCHANGED sortInput
    /\ UNCHANGED sortOthers

RunMergeSort ==
    /\ sortAlg = "none"
    /\ sortResult' = MergeSort(sortInput)
    /\ sortAlg' = "MergeSort"
    /\ UNCHANGED sortInput
    /\ UNCHANGED sortOthers

RunInsertionSort ==
    /\ sortAlg = "none"
    /\ sortResult' = InsertionSort(sortInput)
    /\ sortAlg' = "InsertionSort"
    /\ UNCHANGED sortInput
    /\ UNCHANGED sortOthers

\* -------------------------------------------------------------- part_003
RECURSIVE binarySearchLoop(_, _, _, _)
binarySearchLoop(arr, target, left, right) ==
    IF left <= right
    THEN LET mid == left + (right - left) \div 2
         IN  IF At(arr, mid) = target
             THEN mid
             ELSE IF At(arr, mid) < target
                  THEN binarySearchLoop(arr, target, mid + 1, right)
                  ELSE binarySearchLoop(arr, target, left, mid - 1)
    ELSE -1

\* BinarySearch with right starting one short of the last index
BinarySearchShort(arr, target) == binarySearchLoop(arr, target, 0, Len(arr) - 2)

BinarySearch(arr, target) == binarySearchLoop(arr, target, 0, Len(arr) - 1)


RunBinarySearch ==
    /\ searchAlg = "none"
    /\ searchResult' = BinarySearch(searchArr, searchTarget)
    /\ searchAlg' = "BinarySearch"
    /\ UNCHANGED <<searchArr, searchTarget>>
    /\ UNCHANGED searchOthers

\* the outcome of a search that can panic: the panic, or the index returned
Panicked(why)   == [panic |-> why, index |-> -1, probes |-> <<>>]
Returns(index)  == [panic |-> "none", index |-> index, probes |-> <<>>]

\* arr[i] panics unless 0 <= i < len(arr)
InRange(arr, i) == 0 <= i /\ i < Len(arr)

\* func LinearSearch(arr []int, target int) int
RECURSIVE linearSearchLoop(_, _, _)
linearSearchLoop(arr, target, i) ==
    IF i < Len(arr)
    THEN IF At(arr, i) = target THEN i ELSE linearSearchLoop(arr, target, i + 1)
    ELSE -1

LinearSearch(arr, target) == linearSearchLoop(arr, target, 0)

\* func min(a, b int) int of part_003
minInt(a, b) == IF a < b THEN a ELSE b

\* int(math.Sqrt(float64(n)))
intSqrt(n) == CHOOSE k \in 0..n : k * k <= n /\ n < (k + 1) * (k + 1)

\* for arr[prev] < target { prev++; if prev == min(step, n) { return -1 } }
\* and the final test of arr[prev]
RECURSIVE jumpLinearLoop(_, _, _, _)
jumpLinearLoop(arr, target, step, prev) ==
    IF ~InRange(arr, prev) THEN Panicked("index out of range")
    ELSE IF At(arr, prev) < target
         THEN IF prev + 1 = minInt(step, Len(arr))
              THEN Returns(-1)
              ELSE jumpLinearLoop(arr, target, step, prev + 1)
         ELSE IF At(arr, prev) = target THEN Returns(prev) ELSE Returns(-1)

\* for minStep := min(step, n)-1; arr[minStep] < target; minStep = min(step, n)-1 { ... }
RECURSIVE jumpBlockLoop(_, _, _, _)
jumpBlockLoop(arr, target, step, prev) ==
    LET n       == Len(arr)
        minStep == minInt(step, n) - 1
    IN  IF ~InRange(arr, minStep) THEN Panicked("index out of range")
        ELSE IF At(arr, minStep) < target
             THEN IF step >= n
                  THEN Returns(-1)
                  ELSE jumpBlockLoop(arr, target, step + intSqrt(n), step)
             ELSE jumpLinearLoop(arr, target, step, prev)

\* func JumpSearch(arr []int, target int) int
JumpSearch(arr, target) == jumpBlockLoop(arr, target, intSqrt(Len(arr)), 0)

\* Go's a / b on ints truncates toward zero
intDiv(a, b) ==
    LET abs(v) == IF v < 0 THEN -v ELSE v
        q == abs(a) \div abs(b)
    IN  IF (a < 0) = (b < 0) THEN q ELSE -q

\* for low <= high && target >= arr[low] && target <= arr[high] { ... };
\* probes collects low, high and pos of every probe
RECURSIVE interpolationLoop(_, _, _, _, _)
interpolationLoop(arr, target, low, high, probes) ==
    IF low <= high /\ ~(InRange(arr, low) /\ InRange(arr, high))
    THEN [Panicked("index out of range") EXCEPT !.probes = probes]
    ELSE IF low <= high /\ target >= At(arr, low) /\ target <= At(arr, high)
    THEN IF low = high
         THEN IF At(arr, low) = target
              THEN [Returns(low) EXCEPT !.probes = probes]
              ELSE [Returns(-1) EXCEPT !.probes = probes]
         ELSE IF At(arr, high) - At(arr, low) = 0
              THEN [Panicked("integer divide by zero") EXCEPT !.probes = probes]
              ELSE LET pos  == low + intDiv((high - low) * (target - At(arr, low)), At(arr, high) - At(arr, low))
                       seen == Append(probes, [low |-> low, high |-> high, pos |-> pos])
                   IN  IF ~InRange(arr, pos)
                       THEN [Panicked("index out of range") EXCEPT !.probes = seen]
                       ELSE IF At(arr, pos) = target
                            THEN [Returns(pos) EXCEPT !.probes = seen]
                            ELSE IF At(arr, pos) < target
                                 THEN interpolationLoop(arr, target, pos + 1, high, seen)
                                 ELSE interpolationLoop(arr, target, low, pos - 1, seen)
    ELSE [Returns(-1) EXCEPT !.probes = probes]

\* func InterpolationSearch(arr []int, target int) int
InterpolationSearch(arr, target) == interpolationLoop(arr, target, 0, Len(arr) - 1, <<>>)

RunLinearSearch ==
    /\ searchAlg = "none"
    /\ searchResult' = LinearSearch(searchArr, searchTarget)
    /\ searchAlg' = "LinearSearch"
    /\ UNCHANGED <<searchArr, searchTarget>>
    /\ UNCHANGED searchOthers

RunJumpSearch ==
    /\ searchAlg = "none"
    /\ searchResult' = JumpSearch(searchArr, searchTarget)
    /\ searchAlg' = "JumpSearch"
    /\ UNCHANGED <<searchArr, searchTarget>>
    /\ UNCHANGED searchOthers

RunInterpolationSearch ==
    /\ searchAlg = "none"
    /\ searchResult' = InterpolationSearch(searchArr, searchTarget)
    /\ searchAlg' = "InterpolationSearch"
    /\ UNCHANGED <<searchArr, searchTarget>>
    /\ UNCHANGED searchOthers

\* -------------------------------------------------------------- stack.go
\* one entry of a call history: the method, its argument, what it returned
Call(op, arg, ret, err) == [op |-> op, arg |-> arg, ret |-> ret, err |-> err]

StackPush(items, item) == Append(items, item)

\* Pop that reports no error on the empty stack
StackPopNilError(items) ==
    IF Len(items) = 0
    THEN [items |-> items, ret |-> 0, err |-> FALSE]
    ELSE LET index == Len(items) - 1
             item  == At(items, index)
         IN  [items |-> Slice(items, 0, index), ret |-> item, err |-> FALSE]

\* Pop that keeps the popped item in the slice
StackPopNoShrink(items) ==
    IF Len(items) = 0
    THEN [items |-> items, ret |-> 0, err |-> TRUE]
    ELSE LET index == Len(items) - 1
             item  == At(items, index)
         IN  [items |-> items, ret |-> item, err |-> FALSE]

StackPop(items) ==
    IF Len(items) = 0
    THEN [items |-> items, ret |-> 0, err |-> TRUE]
    ELSE LET index == Len(items) - 1
             item  == At(items, index)
         IN  [items |-> Slice(items, 0, index), ret |-> item, err |-> FALSE]

\* Peek that reads the bottom of the stack
StackPeekBottom(items) ==
    IF Len(items) = 0
    THEN [ret |-> 0, err |-> TRUE]
    ELSE [ret |-> At(items, 0), err |-> FALSE]

StackPeek(items) ==
    IF Len(items) = 0
    THEN [ret |-> 0, err |-> TRUE]
    ELSE [ret |-> At(items, Len(items) - 1), err |-> FALSE]

StackIsEmpty(items) == Len(items) = 0

StackSize(items) == Len(items)

\* -------------------------------------------------------------- part_004
QueueEnqueue(items, item) == Append(items, item)

\* Dequeue that takes the item at the end of the slice
QueueDequeueLast(items) ==
    IF Len(items) = 0
    THEN [items |-> items, ret |-> 0, err |-> TRUE]
    ELSE LET item == At(items, Len(items) - 1)
         IN  [items |-> Slice(items, 0, Len(items) - 1), ret |-> item, err |-> FALSE]

QueueDequeue(items) ==
    IF Len(items) = 0
    THEN [items |-> items, ret |-> 0, err |-> TRUE]
    ELSE LET item == At(items, 0)
         IN  [items |-> Slice(items, 1, Len(items)), ret |-> item, err |-> FALSE]

QueuePeek(items) ==
    IF Len(items) = 0
    THEN [ret |-> 0, err |-> TRUE]
    ELSE [ret |-> At(items, 0), err |-> FALSE]

QueueIsEmpty(items) == Len(items) = 0

QueueSize(items) == Len(items)


MoreOps == Len(s_hist) + Len(q_hist) < MaxOps

Push(item) ==
    /\ MoreOps
    /\ s_items' = StackPush(s_items, item)
    /\ s_hist' = Append(s_hist, Call("Push", item, 0, FALSE))
    /\ UNCHANGED <<q_items, q_hist>>
    /\ UNCHANGED contOthers

Pop ==
    /\ MoreOps
    /\ LET r == StackPop(s_items)
       IN  /\ s_items' = r.items
           /\ s_hist' = Append(s_hist, Call("Pop", 0, r.ret, r.err))
    /\ UNCHANGED <<q_items, q_hist>>
    /\ UNCHANGED contOthers

Peek ==
    /\ MoreOps
    /\ LET r == StackPeek(s_items)
       IN  s_hist' = Append(s_hist, Call("Peek", 0, r.ret, r.err))
    /\ UNCHANGED <<s_items, q_items, q_hist>>
    /\ UNCHANGED contOthers

Enqueue(item) ==
    /\ MoreOps
    /\ q_items' = QueueEnqueue(q_items, item)
    /\ q_hist' = Append(q_hist, Call("Enqueue", item, 0, FALSE))
    /\ UNCHANGED <<s_items, s_hist>>
    /\ UNCHANGED contOthers

Dequeue ==
    /\ MoreOps
    /\ LET r == QueueDequeue(q_items)
       IN  /\ q_items' = r.items
           /\ q_hist' = Append(q_hist, Call("Dequeue", 0, r.ret, r.err))
    /\ UNCHANGED <<s_items, s_hist>>
    /\ UNCHANGED contOthers

QPeek ==
    /\ MoreOps
    /\ LET r == QueuePeek(q_items)
       IN  q_hist' = Append(q_hist, Call("Peek", 0, r.ret, r.err))
    /\ UNCHANGED <<s_items, s_hist, q_items>>
    /\ UNCHANGED contOthers

\* --------------------------------------------------------------- tree.go
\* &TreeNode{Value: value}
TreeNode(value) == [Value |-> value, Left |-> 0, Right |-> 0]

RECURSIVE insertRecursive(_, _, _)
insertRecursive(h, node, value) ==
    IF value < h[node].Value
    THEN IF h[node].Left = 0
         THEN Append([h EXCEPT ![node].Left = Len(h) + 1], TreeNode(value))
         ELSE insertRecursive(h, h[node].Left, value)
    ELSE IF h[node].Right = 0
         THEN Append([h EXCEPT ![node].Right = Len(h) + 1], TreeNode(value))
         ELSE insertRecursive(h, h[node].Right, value)

\* returns the heap and the root after t.Insert(value)
Insert(h, root, value) ==
    IF root = 0
    THEN [heap |-> Append(h, TreeNode(value)), Root |-> Len(h) + 1]
    ELSE [heap |-> insertRecursive(h, root, value), Root |-> root]

RECURSIVE searchRecursive(_, _, _)
searchRecursive(h, node, value) ==
    IF node = 0
    THEN FALSE
    ELSE IF h[node].Value = value
         THEN TRUE
         ELSE IF value < h[node].Value
              THEN searchRecursive(h, h[node].Left, value)
              ELSE searchRecursive(h, h[node].Right, value)

\* Search that starts below the root
SearchSkipRoot(h, root, value) ==
    IF root = 0
    THEN FALSE
    ELSE IF value < h[root].Value
         THEN searchRecursive(h, h[root].Left, value)
         ELSE searchRecursive(h, h[root].Right, value)

Search(h, root, value) == searchRecursive(h, root, value)

\* the traversals, as the sequence of nodes in the order their value is appended
RECURSIVE inorderRecursive(_, _)
inorderRecursive(h, node) ==
    IF node # 0
    THEN (inorderRecursive(h, h[node].Left) \o <<node>>) \o inorderRecursive(h, h[node].Right)
    ELSE <<>>

RECURSIVE preorderRecursive(_, _)
preorderRecursive(h, node) ==
    IF node # 0
    THEN (<<node>> \o preorderRecursive(h, h[node].Left)) \o preorderRecursive(h, h[node].Right)
    ELSE <<>>

RECURSIVE postorderRecursive(_, _)
postorderRecursive(h, node) ==
    IF node # 0
    THEN (postorderRecursive(h, h[node].Left) \o postorderRecursive(h, h[node].Right)) \o <<node>>
    ELSE <<>>

\* *result = append(*result, node.Value) for each visited node
NodeValues(h, nodes) == [i \in 1..Len(nodes) |-> h[nodes[i]].Value]

\* InorderTraversal that appends the node before its left subtree
InorderTraversalNodeFirst(h, root) == NodeValues(h, preorderRecursive(h, root))

InorderTraversal(h, root) == NodeValues(h, inorderRecursive(h, root))

PreorderTraversal(h, root) == NodeValues(h, preorderRecursive(h, root))

\* PostorderTraversal that skips the right subtree of the root
PostorderTraversalNoRight(h, root) ==
    IF root # 0
    THEN NodeValues(h, postorderRecursive(h, h[root].Left) \o <<root>>)
    ELSE <<>>

PostorderTraversal(h, root) == NodeValues(h, postorderRecursive(h, root))

\* values := []int{5, 3, 7, 1, 4, 6, 8} of main
values == <<5, 3, 7, 1, 4, 6, 8>>


\* t.Insert(value) by any caller
TreeInsert(value) ==
    /\ treeMode = "free"
    /\ Len(inserted) < MaxInserts
    /\ LET r == Insert(heap, Root, value)
       IN  /\ heap' = r.heap
           /\ Root' = r.Root
    /\ inserted' = Append(inserted, value)
    /\ searched' = <<>>
    /\ UNCHANGED treeMode
    /\ UNCHANGED treeOthers

\* for _, value := range values { tree.Insert(value) } of main
MainInsert ==
    /\ treeMode = "main"
    /\ Len(inserted) < Len(values)
    /\ LET r == Insert(heap, Root, values[Len(inserted) + 1])
       IN  /\ heap' = r.heap
           /\ Root' = r.Root
    /\ inserted' = Append(inserted, values[Len(inserted) + 1])
    /\ searched' = <<>>
    /\ UNCHANGED treeMode
    /\ UNCHANGED treeOthers

\* exists := tree.Search(value)
TreeSearch(value) ==
    /\ searched' = <<value, Search(heap, Root, value)>>
    /\ UNCHANGED <<heap, Root, inserted, treeMode>>
    /\ UNCHANGED treeOthers

\* -------------------------------------------------------------- graph.go
\* g.vertices[vertex]: the nil slice for a key the map does not hold
adj(m, vertex) == IF vertex \in DOMAIN m THEN m[vertex] ELSE <<>>

\* g.vertices[key] = val
MapSet(m, key, val) == [k \in DOMAIN m \cup {key} |-> IF k = key THEN val ELSE m[k]]

NewGraph == <<>>

AddVertex(m, vertex) ==
    IF vertex \notin DOMAIN m THEN MapSet(m, vertex, <<>>) ELSE m

\* AddEdge that appends in one direction only
AddEdgeOneWay(m, vertex1, vertex2) ==
    MapSet(m, vertex1, Append(adj(m, vertex1), vertex2))

AddEdge(m, vertex1, vertex2) ==
    LET m1 == MapSet(m, vertex1, Append(adj(m, vertex1), vertex2))
    IN  MapSet(m1, vertex2, Append(adj(m1, vertex2), vertex1))

GetNeighbors(m, vertex) == adj(m, vertex)

\* for _, neighbor := range g.vertices[vertex] of BFS; visited is the set of
\* keys that visited maps to true
RECURSIVE bfsNeighbors(_, _, _, _)
bfsNeighbors(neighbors, k, visited, queue) ==
    IF k < Len(neighbors)
    THEN LET neighbor == At(neighbors, k)
         IN  IF neighbor \notin visited
             THEN bfsNeighbors(neighbors, k + 1, visited \cup {neighbor}, Append(queue, neighbor))
             ELSE bfsNeighbors(neighbors, k + 1, visited, queue)
    ELSE <<visited, queue>>

RECURSIVE bfsLoop(_, _, _, _)
bfsLoop(m, visited, queue, result) ==
    IF Len(queue) > 0
    THEN LET vertex == At(queue, 0)
             r      == bfsNeighbors(adj(m, vertex), 0, visited, Slice(queue, 1, Len(queue)))
         IN  bfsLoop(m, r[1], r[2], Append(result, vertex))
    ELSE result

\* BFS that does not mark the start vertex as visited
BFSStartUnmarked(m, start) == bfsLoop(m, {}, <<start>>, <<>>)

BFS(m, start) == bfsLoop(m, {start}, <<start>>, <<>>)

\* dfsUtil and its loop over the neighbors; both return <<visited, result>>
RECURSIVE dfsUtil(_, _, _, _)
RECURSIVE dfsNeighbors(_, _, _, _, _)
dfsNeighbors(m, neighbors, k, visited, result) ==
    IF k < Len(neighbors)
    THEN IF At(neighbors, k) \notin visited
         THEN LET r == dfsUtil(m, At(neighbors, k), visited, result)
              IN  dfsNeighbors(m, neighbors, k + 1, r[1], r[2])
         ELSE dfsNeighbors(m, neighbors, k + 1, visited, result)
    ELSE <<visited, result>>

dfsUtil(m, vertex, visited, result) ==
    dfsNeighbors(m, adj(m, vertex), 0, visited \cup {vertex}, Append(result, vertex))

DFS(m, start) == dfsUtil(m, start, {}, <<>>)[2]

\* the number of AddEdge calls made so far: each appends two entries
RECURSIVE AdjEntries(_, _)
AdjEntries(m, keys) ==
    IF keys = {}
    THEN 0
    ELSE LET k == CHOOSE x \in keys : TRUE
         IN  Len(m[k]) + AdjEntries(m, keys \ {k})

EdgesAdded == AdjEntries(vertices, DOMAIN vertices) \div 2

GAddVertex(vertex) ==
    /\ vertices' = AddVertex(vertices, vertex)
    /\ traversal' = <<>>
    /\ UNCHANGED graphOthers

GAddEdge(vertex1, vertex2) ==
    /\ EdgesAdded < MaxEdges
    /\ vertices' = AddEdge(vertices, vertex1, vertex2)
    /\ traversal' = <<>>
    /\ UNCHANGED graphOthers

RunBFS(start) ==
    /\ traversal' = [alg |-> "BFS", start |-> start, result |-> BFS(vertices, start)]
    /\ UNCHANGED vertices
    /\ UNCHANGED graphOthers

RunDFS(start) ==
    /\ traversal' = [alg |-> "DFS", start |-> start, result |-> DFS(vertices, start)]
    /\ UNCHANGED vertices
    /\ UNCHANGED graphOthers

\* ----------------------------------------------- sorting.go, linked list
\* &Node{data: data}
Node(data) == [data |-> data, next |-> 0]

\* for current.next != nil { current = current.next }
RECURSIVE lastNode(_, _)
lastNode(nodes, current) ==
    IF nodes[current].next # 0
    THEN lastNode(nodes, nodes[current].next)
    ELSE current

\* returns the nodes and the head after l.Insert(data)
ListInsert(nodes, h, data) ==
    LET newNode   == Len(nodes) + 1
        allocated == Append(nodes, Node(data))
    IN  IF h = 0
        THEN [nodes |-> allocated, head |-> newNode]
        ELSE [nodes |-> [allocated EXCEPT ![lastNode(nodes, h)].next = newNode],
              head  |-> h]

\* the loop of Delete over the nodes after the head; returns <<nodes, found>>
RECURSIVE deleteLoop(_, _, _)
deleteLoop(nodes, current, data) ==
    IF nodes[current].next # 0
    THEN IF nodes[nodes[current].next].data = data
         THEN <<[nodes EXCEPT ![current].next = nodes[nodes[current].next].next], TRUE>>
         ELSE deleteLoop(nodes, nodes[current].next, data)
    ELSE <<nodes, FALSE>>

\* Delete without the case of the data in the head node
ListDeleteSkipHead(nodes, h, data) ==
    IF h = 0
    THEN [nodes |-> nodes, head |-> h, ret |-> FALSE]
    ELSE LET r == deleteLoop(nodes, h, data)
         IN  [nodes |-> r[1], head |-> h, ret |-> r[2]]

\* returns the nodes, the head and the returned flag of l.Delete(data)
ListDelete(nodes, h, data) ==
    IF h = 0
    THEN [nodes |-> nodes, head |-> h, ret |-> FALSE]
    ELSE IF nodes[h].data = data
         THEN [nodes |-> nodes, head |-> nodes[h].next, ret |-> TRUE]
         ELSE LET r == deleteLoop(nodes, h, data)
              IN  [nodes |-> r[1], head |-> h, ret |-> r[2]]

\* the data of the chain from current, as Print walks it
RECURSIVE Chain(_, _)
Chain(nodes, current) ==
    IF current # 0
    THEN <<nodes[current].data>> \o Chain(nodes, nodes[current].next)
    ELSE <<>>

\* s without its first element equal to x
RemoveFirst(s, x) ==
    IF \E i \in 1..Len(s) : s[i] = x
    THEN LET i == CHOOSE k \in 1..Len(s) : s[k] = x /\ \A j \in 1..(k - 1) : s[j] # x
         IN  SubSeq(s, 1, i - 1) \o SubSeq(s, i + 1, Len(s))
    ELSE s

LInsert(data) ==
    /\ ll_calls < MaxListCalls
    /\ LET r == ListInsert(ll_nodes, head, data)
       IN  /\ ll_nodes' = r.nodes
           /\ head' = r.head
    /\ ll_ref' = Append(ll_ref, data)
    /\ ll_last' = <<>>
    /\ ll_calls' = ll_calls + 1
    /\ UNCHANGED listOthers

LDelete(data) ==
    /\ ll_calls < MaxListCalls
    /\ LET r == ListDelete(ll_nodes, head, data)
       IN  /\ ll_nodes' = r.nodes
           /\ head' = r.head
           /\ ll_last' = [data |-> data, ret |-> r.ret, before |-> Chain(ll_nodes, head)]
    /\ ll_ref' = RemoveFirst(ll_ref, data)
    /\ ll_calls' = ll_calls + 1
    /\ UNCHANGED listOthers

\* ---------------------------------------------------- sorting.go, strings
\* the bytes of the characters that the string literals of main use
ascii ==
    [c \in {"A", "B", "C", "D", "e", "g", "i", "k", "n", "s", "t"} |->
        CASE c = "A" -> 65 [] c = "B" -> 66 [] c = "C" -> 67 [] c = "D" -> 68
          [] c = "e" -> 101 [] c = "g" -> 103 [] c = "i" -> 105 [] c = "k" -> 107
          [] c = "n" -> 110 [] c = "s" -> 115 [] c = "t" -> 116]

\* a string literal, given character by character, as its bytes
Bytes(chars) == [i \in 1..Len(chars) |-> ascii[chars[i]]]

RECURSIVE lpsLoop(_, _, _, _)
lpsLoop(pat, lps, length, i) ==
    IF i < Len(pat)
    THEN IF At(pat, i) = At(pat, length)
         THEN lpsLoop(pat, Set(lps, i, length + 1), length + 1, i + 1)
         ELSE IF length # 0
              THEN lpsLoop(pat, lps, At(lps, length - 1), i)
              ELSE lpsLoop(pat, Set(lps, i, 0), 0, i + 1)
    ELSE lps

computeLPSArray(pat) == lpsLoop(pat, [k \in 1..Len(pat) |-> 0], 0, 1)

\* the loop of KMPSearch; pattern[j] with j >= len(pattern) is a runtime panic
RECURSIVE kmpLoop(_, _, _, _, _, _)
kmpLoop(txt, pat, lps, i, j, matches) ==
    IF i < Len(txt)
    THEN IF j >= Len(pat)
         THEN [panic |-> TRUE, matches |-> matches]
         ELSE LET eq == At(pat, j) = At(txt, i)
                  i1 == IF eq THEN i + 1 ELSE i
                  j1 == IF eq THEN j + 1 ELSE j
              IN  IF j1 = Len(pat)
                  THEN kmpLoop(txt, pat, lps, i1, At(lps, j1 - 1), Append(matches, i1 - j1))
                  ELSE IF i1 < Len(txt) /\ At(pat, j1) # At(txt, i1)
                       THEN IF j1 # 0
                            THEN kmpLoop(txt, pat, lps, i1, At(lps, j1 - 1), matches)
                            ELSE kmpLoop(txt, pat, lps, i1 + 1, j1, matches)
                       ELSE kmpLoop(txt, pat, lps, i1, j1, matches)
    ELSE [panic |-> FALSE, matches |-> matches]

\* KMPSearch with an LPS array that was never filled
KMPSearchZeroLPS(txt, pat) ==
    kmpLoop(txt, pat, [k \in 1..Len(pat) |-> 0], 0, 0, <<>>)

KMPSearch(txt, pat) == kmpLoop(txt, pat, computeLPSArray(pat), 0, 0, <<>>)

\* min that never returns its third argument
minOfFirstTwo(a, b, c) == IF a < b THEN a ELSE b

min(a, b, c) ==
    IF a < b
    THEN IF a < c THEN a ELSE c
    ELSE IF b < c THEN b ELSE c

\* for j := 1; j <= n; j++ { ... } for row i of dp.  dp[i][j] is in range
\* for every j <= n; the test of it makes TLC evaluate dp at each step
\* instead of nesting the m*n updates
RECURSIVE levRow(_, _, _, _, _)
levRow(s1, s2, dp, i, j) ==
    IF j <= Len(s2) /\ j \in DOMAIN dp[i]
    THEN IF At(s1, i - 1) = At(s2, j - 1)
         THEN levRow(s1, s2, [dp EXCEPT ![i][j] = dp[i - 1][j - 1]], i, j + 1)
         ELSE levRow(s1, s2,
                     [dp EXCEPT ![i][j] = 1 + min(dp[i - 1][j], dp[i][j - 1], dp[i - 1][j - 1])],
                     i, j + 1)
    ELSE dp

\* for i := 1; i <= m; i++ { ... }
RECURSIVE levFill(_, _, _, _)
levFill(s1, s2, dp, i) ==
    IF i <= Len(s1)
    THEN levFill(s1, s2, levRow(s1, s2, dp, i, 1), i + 1)
    ELSE dp

LevenshteinDistance(s1, s2) ==
    LET m   == Len(s1)
        n   == Len(s2)
        dp0 == [i \in 0..m |-> [j \in 0..n |-> IF j = 0 THEN i ELSE IF i = 0 THEN j ELSE 0]]
    IN  levFill(s1, s2, dp0, 1)[m][n]

\* Go's a % b on ints takes the sign of a
intRem(a, b) == a - b * intDiv(a, b)

\* const base = 256; const prime = 101
base  == 256
prime == 101

\* for i := 0; i < len(pattern); i++ { patternHash = ...; windowHash = ... }
RECURSIVE rkHashLoop(_, _, _, _, _)
rkHashLoop(txt, pat, i, patternHash, windowHash) ==
    IF i < Len(pat)
    THEN rkHashLoop(txt, pat, i + 1,
                    intRem(patternHash * base + At(pat, i), prime),
                    intRem(windowHash * base + At(txt, i), prime))
    ELSE [patternHash |-> patternHash, windowHash |-> windowHash]

\* for i := 0; i < len(pattern)-1; i++ { h = (h * base) % prime }
RECURSIVE rkPower(_, _, _)
rkPower(pat, i, h) ==
    IF i < Len(pat) - 1 THEN rkPower(pat, i + 1, intRem(h * base, prime)) ELSE h

\* for j := 0; j < len(pattern); j++ { if text[i+j] != pattern[j] { match = false; break } }
RECURSIVE rkMatch(_, _, _, _)
rkMatch(txt, pat, i, j) ==
    IF j < Len(pat)
    THEN IF At(txt, i + j) # At(pat, j) THEN FALSE ELSE rkMatch(txt, pat, i, j + 1)
    ELSE TRUE

\* windowHash = (base*(windowHash-int(text[i])*h) + int(text[i+len(pattern)])) % prime;
\* if windowHash < 0 { windowHash += prime }
rkNextHash(txt, pat, i, windowHash, h) ==
    LET next == intRem(base * (windowHash - At(txt, i) * h) + At(txt, i + Len(pat)), prime)
    IN  IF next < 0 THEN next + prime ELSE next

\* for i := 0; i <= len(text)-len(pattern); i++ { ... }; hashes collects
\* the window hash used at every i
RECURSIVE rkSlide(_, _, _, _, _, _, _, _)
rkSlide(txt, pat, i, patternHash, windowHash, h, matches, hashes) ==
    IF i <= Len(txt) - Len(pat)
    THEN LET found == IF patternHash = windowHash /\ rkMatch(txt, pat, i, 0)
                      THEN Append(matches, i) ELSE matches
             seen  == Append(hashes, windowHash)
         IN  IF i < Len(txt) - Len(pat)
             THEN rkSlide(txt, pat, i + 1, patternHash, rkNextHash(txt, pat, i, windowHash, h), h, found, seen)
             ELSE rkSlide(txt, pat, i + 1, patternHash, windowHash, h, found, seen)
    ELSE [panic |-> FALSE, matches |-> matches, hashes |-> hashes]

\* func RabinKarp(text, pattern string) []int
RabinKarp(txt, pat) ==
    IF Len(pat) > Len(txt) THEN [panic |-> FALSE, matches |-> <<>>, hashes |-> <<>>]
    ELSE LET hs == rkHashLoop(txt, pat, 0, 0, 0)
         IN  rkSlide(txt, pat, 0, hs.patternHash, hs.windowHash, rkPower(pat, 0, 1), <<>>, <<>>)

RunRabinKarp ==
    /\ strAlg = "none"
    /\ strResult' = RabinKarp(text, pattern)
    /\ strAlg' = "RabinKarp"
    /\ UNCHANGED <<text, pattern>>
    /\ UNCHANGED strOthers

RunKMPSearch ==
    /\ strAlg = "none"
    /\ strResult' = KMPSearch(text, pattern)
    /\ strAlg' = "KMPSearch"
    /\ UNCHANGED <<text, pattern>>
    /\ UNCHANGED strOthers

\* distance := LevenshteinDistance(str1, str2), with s1 the text and s2 the pattern
RunLevenshteinDistance ==
    /\ strAlg = "none"
    /\ strResult' = LevenshteinDistance(text, pattern)
    /\ strAlg' = "LevenshteinDistance"
    /\ UNCHANGED <<text, pattern>>
    /\ UNCHANGED strOthers

\* the argument pairs of main
MainStrings ==
    {<<Bytes(<<"A", "A", "B", "A", "A", "C", "A", "A", "D", "A", "A", "B", "A", "A", "A", "B", "A", "A">>),
       Bytes(<<"A", "A", "B", "A">>)>>,
     <<Bytes(<<"k", "i", "t", "t", "e", "n">>), Bytes(<<"s", "i", "t", "t", "i", "n", "g">>)>>}

\* ----------------------------------------------------------- singleton.go
Goroutines == 1..NumGoroutines

\* &Singleton{count: 0}
Singleton == [count |-> 0]

\* sync.Mutex of once: free when no goroutine holds it
mutexIgnored(m) == m \in 0..NumGoroutines
mutexFree(m) == m = 0

\* func (s *Singleton) GetCount() int
GetCount(s) == objects[s].count

\* singleton1 := GetInstance(); singleton2 := GetInstance(): a goroutine
\* running main makes its next call
CallGetInstance(g) ==
    /\ sg_pc[g] = "idle"
    /\ Len(sg_ref[g]) < MainGetCalls
    /\ sg_pc' = [sg_pc EXCEPT ![g] = "do"]
    /\ UNCHANGED <<instance, onceDone, onceM, objects, initRuns, sg_ref, sg_tmp, sg_val, returned>>
    /\ UNCHANGED singleOthers

\* once.Do, fast path: nothing to do when done is already set
OnceDo(g) ==
    /\ sg_pc[g] = "do"
    /\ sg_pc' = [sg_pc EXCEPT ![g] = IF onceDone THEN "return" ELSE "lock"]
    /\ UNCHANGED <<instance, onceDone, onceM, objects, initRuns, sg_ref, sg_tmp, sg_val, returned>>
    /\ UNCHANGED singleOthers

\* once.Do, slow path: take the mutex of once
OnceLock(g) ==
    /\ sg_pc[g] = "lock"
    /\ mutexFree(onceM)
    /\ onceM' = g
    /\ sg_pc' = [sg_pc EXCEPT ![g] = "slow"]
    /\ UNCHANGED <<instance, onceDone, objects, initRuns, sg_ref, sg_tmp, sg_val, returned>>
    /\ UNCHANGED singleOthers

\* once.Do, slow path: with the mutex held, run the function if done is
\* still unset: instance = &Singleton{count: 0}
OnceRun(g) ==
    /\ sg_pc[g] = "slow"
    /\ IF ~onceDone
       THEN /\ objects' = Append(objects, Singleton)
            /\ instance' = Len(objects) + 1
            /\ initRuns' = initRuns + 1
            /\ sg_pc' = [sg_pc EXCEPT ![g] = "store"]
       ELSE /\ sg_pc' = [sg_pc EXCEPT ![g] = "unlock"]
            /\ UNCHANGED <<objects, instance, initRuns>>
    /\ UNCHANGED <<onceDone, onceM, sg_ref, sg_tmp, sg_val, returned>>
    /\ UNCHANGED singleOthers

\* once.Do, slow path: done is set after the function has returned
OnceStore(g) ==
    /\ sg_pc[g] = "store"
    /\ onceDone' = TRUE
    /\ sg_pc' = [sg_pc EXCEPT ![g] = "unlock"]
    /\ UNCHANGED <<instance, onceM, objects, initRuns, sg_ref, sg_tmp, sg_val, returned>>
    /\ UNCHANGED singleOthers

\* once.Do, slow path: release the mutex
OnceUnlock(g) ==
    /\ sg_pc[g] = "unlock"
    /\ onceM' = 0
    /\ sg_pc' = [sg_pc EXCEPT ![g] = "return"]
    /\ UNCHANGED <<instance, onceDone, objects, initRuns, sg_ref, sg_tmp, sg_val, returned>>
    /\ UNCHANGED singleOthers

\* return instance
GetInstanceReturn(g) ==
    /\ sg_pc[g] = "return"
    /\ sg_ref' = [sg_ref EXCEPT ![g] = Append(@, instance)]
    /\ returned' = returned \cup {instance}
    /\ sg_pc' = [sg_pc EXCEPT ![g] = "idle"]
    /\ UNCHANGED <<instance, onceDone, onceM, objects, initRuns, sg_tmp, sg_val>>
    /\ UNCHANGED singleOthers

\* singleton1.IncrementCount(): s.count++ reads count; a nil s panics
IncrementCountRead(g) ==
    /\ sg_pc[g] = "idle"
    /\ Len(sg_ref[g]) = MainGetCalls
    /\ IF sg_ref[g][1] = 0
       THEN /\ sg_pc' = [sg_pc EXCEPT ![g] = "panic"]
            /\ UNCHANGED sg_tmp
       ELSE /\ sg_tmp' = [sg_tmp EXCEPT ![g] = objects[sg_ref[g][1]].count]
            /\ sg_pc' = [sg_pc EXCEPT ![g] = "inc"]
    /\ UNCHANGED <<instance, onceDone, onceM, objects, initRuns, sg_ref, sg_val, returned>>
    /\ UNCHANGED singleOthers

\* s.count++ writes the value read plus one
IncrementCountWrite(g) ==
    /\ sg_pc[g] = "inc"
    /\ objects' = [objects EXCEPT ![sg_ref[g][1]].count = sg_tmp[g] + 1]
    /\ sg_pc' = [sg_pc EXCEPT ![g] = "incret"]
    /\ UNCHANGED <<instance, onceDone, onceM, initRuns, sg_ref, sg_tmp, sg_val, returned>>
    /\ UNCHANGED singleOthers

\* return s.count
IncrementCountReturn(g) ==
    /\ sg_pc[g] = "incret"
    /\ sg_val' = [sg_val EXCEPT ![g] = GetCount(sg_ref[g][1])]
    /\ sg_pc' = [sg_pc EXCEPT ![g] = "done"]
    /\ UNCHANGED <<instance, onceDone, onceM, objects, initRuns, sg_ref, sg_tmp, returned>>
    /\ UNCHANGED singleOthers

\* --------------------------------------------------------- concurrency.go
WgDelta      == 2   \* wg.Add(2)
NumbersSent  == 5   \* generateNumbers: for i := 1; i <= 5; i++
BufferCap    == 3   \* make(chan int, 3)
SelectRounds == 2   \* for i := 0; i < 2; i++ { select ... }

\* go printNumbers(1, 3, &wg); go printNumbers(4, 6, &wg)
PrintArgs == <<[from |-> 1, to |-> 3], [from |-> 4, to |-> 6]>>
Printers  == 1..Len(PrintArgs)
GoPc      == <<"go1", "go2">>

\* bufferedCh <- 1; bufferedCh <- 2; bufferedCh <- 3
BufferedSends == <<1, 2, 3>>

\* the messages of the two anonymous sender goroutines
Messages == <<"Message from channel 1", "Message from channel 2">>
Senders  == 1..Len(Messages)
GoSendPc == <<"goSend1", "goSend2">>

\* wg.Wait() returns when the counter is zero
waitIgnoresCounter(counter) == counter >= 0
waitReturns(counter) == counter = 0

\* the loop condition of generateNumbers
genLoopShort(i) == i < NumbersSent
genLoopCond(i) == i <= NumbersSent

\* the loop condition of the select loop of main
selectLoopShort(i) == i + 1 < SelectRounds
selectLoopCond(i) == i < SelectRounds

\* wg.Add(2)
WgAdd ==
    /\ m_pc = "add"
    /\ wgCounter' = wgCounter + WgDelta
    /\ m_pc' = GoPc[1]
    /\ UNCHANGED <<pn_pc, pn_i, printed, numbersClosed, closes, gen_pc, gen_i, received, bufferedCh, bufferedOut, snd_pc, sel_i, messages>>
    /\ UNCHANGED concOthers

\* go printNumbers(from, to, &wg)
GoPrintNumbers(k) ==
    /\ m_pc = GoPc[k]
    /\ pn_pc' = [pn_pc EXCEPT ![k] = "loop"]
    /\ pn_i' = [pn_i EXCEPT ![k] = PrintArgs[k].from]
    /\ m_pc' = IF k < Len(GoPc) THEN GoPc[k + 1] ELSE "wait"
    /\ UNCHANGED <<wgCounter, printed, numbersClosed, closes, gen_pc, gen_i, received, bufferedCh, bufferedOut, snd_pc, sel_i, messages>>
    /\ UNCHANGED concOthers

\* printNumbers: i <= to
PrintLoop(k) ==
    /\ pn_pc[k] = "loop"
    /\ pn_pc' = [pn_pc EXCEPT ![k] = IF pn_i[k] <= PrintArgs[k].to THEN "sleep" ELSE "done"]
    /\ UNCHANGED <<m_pc, wgCounter, pn_i, printed, numbersClosed, closes, gen_pc, gen_i, received, bufferedCh, bufferedOut, snd_pc, sel_i, messages>>
    /\ UNCHANGED concOthers

\* printNumbers: time.Sleep
PrintSleep(k) ==
    /\ pn_pc[k] = "sleep"
    /\ pn_pc' = [pn_pc EXCEPT ![k] = "print"]
    /\ UNCHANGED <<m_pc, wgCounter, pn_i, printed, numbersClosed, closes, gen_pc, gen_i, received, bufferedCh, bufferedOut, snd_pc, sel_i, messages>>
    /\ UNCHANGED concOthers

\* printNumbers: fmt.Printf("Number: %d\n", i); i++
PrintNumber(k) ==
    /\ pn_pc[k] = "print"
    /\ printed' = Append(printed, pn_i[k])
    /\ pn_i' = [pn_i EXCEPT ![k] = @ + 1]
    /\ pn_pc' = [pn_pc EXCEPT ![k] = "loop"]
    /\ UNCHANGED <<m_pc, wgCounter, numbersClosed, closes, gen_pc, gen_i, received, bufferedCh, bufferedOut, snd_pc, sel_i, messages>>
    /\ UNCHANGED concOthers

\* printNumbers: the deferred wg.Done(); a counter below zero panics
WgDone(k) ==
    /\ pn_pc[k] = "done"
    /\ wgCounter' = wgCounter - 1
    /\ pn_pc' = [pn_pc EXCEPT ![k] = IF wgCounter - 1 < 0 THEN "panic" ELSE "exit"]
    /\ UNCHANGED <<m_pc, pn_i, printed, numbersClosed, closes, gen_pc, gen_i, received, bufferedCh, bufferedOut, snd_pc, sel_i, messages>>
    /\ UNCHANGED concOthers

\* wg.Wait(); numbers := make(chan int)
WgWait ==
    /\ m_pc = "wait"
    /\ waitReturns(wgCounter)
    /\ m_pc' = "goGenerate"
    /\ UNCHANGED <<wgCounter, pn_pc, pn_i, printed, numbersClosed, closes, gen_pc, gen_i, received, bufferedCh, bufferedOut, snd_pc, sel_i, messages>>
    /\ UNCHANGED concOthers

\* go generateNumbers(numbers)
GoGenerateNumbers ==
    /\ m_pc = "goGenerate"
    /\ gen_pc' = "loop"
    /\ gen_i' = 1
    /\ m_pc' = "range"
    /\ UNCHANGED <<wgCounter, pn_pc, pn_i, printed, numbersClosed, closes, received, bufferedCh, bufferedOut, snd_pc, sel_i, messages>>
    /\ UNCHANGED concOthers

\* generateNumbers: i <= 5
GenerateLoop ==
    /\ gen_pc = "loop"
    /\ gen_pc' = IF genLoopCond(gen_i) THEN "send" ELSE "close"
    /\ UNCHANGED <<m_pc, wgCounter, pn_pc, pn_i, printed, numbersClosed, closes, gen_i, received, bufferedCh, bufferedOut, snd_pc, sel_i, messages>>
    /\ UNCHANGED concOthers

\* ch <- i meets the receive of for num := range numbers, which prints
\* num; a send on a closed channel panics
SendReceiveNumber ==
    /\ gen_pc = "send"
    /\ IF numbersClosed
       THEN /\ gen_pc' = "panic"
            /\ UNCHANGED received
       ELSE /\ m_pc = "range"
            /\ received' = Append(received, gen_i)
            /\ gen_pc' = "sleep"
    /\ UNCHANGED <<m_pc, wgCounter, pn_pc, pn_i, printed, numbersClosed, closes, gen_i, bufferedCh, bufferedOut, snd_pc, sel_i, messages>>
    /\ UNCHANGED concOthers

\* generateNumbers: time.Sleep; i++
GenerateSleep ==
    /\ gen_pc = "sleep"
    /\ gen_i' = gen_i + 1
    /\ gen_pc' = "loop"
    /\ UNCHANGED <<m_pc, wgCounter, pn_pc, pn_i, printed, numbersClosed, closes, received, bufferedCh, bufferedOut, snd_pc, sel_i, messages>>
    /\ UNCHANGED concOthers

\* close(ch); closing a closed channel panics
CloseNumbers ==
    /\ gen_pc = "close"
    /\ IF numbersClosed
       THEN /\ gen_pc' = "panic"
            /\ UNCHANGED <<numbersClosed, closes>>
       ELSE /\ numbersClosed' = TRUE
            /\ closes' = closes + 1
            /\ gen_pc' = "exit"
    /\ UNCHANGED <<m_pc, wgCounter, pn_pc, pn_i, printed, gen_i, received, bufferedCh, bufferedOut, snd_pc, sel_i, messages>>
    /\ UNCHANGED concOthers

\* for num := range numbers ends when the channel is closed;
\* bufferedCh := make(chan int, 3)
RangeEnd ==
    /\ m_pc = "range"
    /\ numbersClosed
    /\ m_pc' = "bufferedSend"
    /\ UNCHANGED <<wgCounter, pn_pc, pn_i, printed, numbersClosed, closes, gen_pc, gen_i, received, bufferedCh, bufferedOut, snd_pc, sel_i, messages>>
    /\ UNCHANGED concOthers

\* bufferedCh <- 1, 2, 3: a send waits while the buffer is full
BufferedSend ==
    /\ m_pc = "bufferedSend"
    /\ Len(bufferedCh) < BufferCap
    /\ bufferedCh' = Append(bufferedCh, BufferedSends[Len(bufferedCh) + 1])
    /\ m_pc' = IF Len(bufferedCh) + 1 < Len(BufferedSends) THEN "bufferedSend" ELSE "bufferedReceive"
    /\ UNCHANGED <<wgCounter, pn_pc, pn_i, printed, numbersClosed, closes, gen_pc, gen_i, received, bufferedOut, snd_pc, sel_i, messages>>
    /\ UNCHANGED concOthers

\* fmt.Printf("From buffered channel: %d\n", <-bufferedCh), three times;
\* ch1 := make(chan string); ch2 := make(chan string)
BufferedReceive ==
    /\ m_pc = "bufferedReceive"
    /\ bufferedCh # <<>>
    /\ bufferedOut' = Append(bufferedOut, Head(bufferedCh))
    /\ bufferedCh' = Tail(bufferedCh)
    /\ m_pc' = IF Len(bufferedOut) + 1 < Len(BufferedSends) THEN "bufferedReceive" ELSE GoSendPc[1]
    /\ UNCHANGED <<wgCounter, pn_pc, pn_i, printed, numbersClosed, closes, gen_pc, gen_i, received, snd_pc, sel_i, messages>>
    /\ UNCHANGED concOthers

\* go func() { time.Sleep(...); ch <- "Message from channel k" }()
GoSender(k) ==
    /\ m_pc = GoSendPc[k]
    /\ snd_pc' = [snd_pc EXCEPT ![k] = "sleep"]
    /\ m_pc' = IF k < Len(GoSendPc) THEN GoSendPc[k + 1] ELSE "selectInit"
    /\ UNCHANGED <<wgCounter, pn_pc, pn_i, printed, numbersClosed, closes, gen_pc, gen_i, received, bufferedCh, bufferedOut, sel_i, messages>>
    /\ UNCHANGED concOthers

\* the sender's time.Sleep
SenderSleep(k) ==
    /\ snd_pc[k] = "sleep"
    /\ snd_pc' = [snd_pc EXCEPT ![k] = "send"]
    /\ UNCHANGED <<m_pc, wgCounter, pn_pc, pn_i, printed, numbersClosed, closes, gen_pc, gen_i, received, bufferedCh, bufferedOut, sel_i, messages>>
    /\ UNCHANGED concOthers

\* for i := 0; i < 2
SelectInit ==
    /\ m_pc = "selectInit"
    /\ sel_i' = 0
    /\ m_pc' = IF selectLoopCond(0) THEN "select" ELSE "end"
    /\ UNCHANGED <<wgCounter, pn_pc, pn_i, printed, numbersClosed, closes, gen_pc, gen_i, received, bufferedCh, bufferedOut, snd_pc, messages>>
    /\ UNCHANGED concOthers
    /\ e_numbers = <<>> /\ e_x = 0 /\ e_pc = "none" /\ e_i = 0 /\ e_stmt = 0 /\ deferred = <<>> /\ panicking = "nil" /\ e_recovered = "nil" /\ e_out = <<>>
    /\ l_heap = <<>> /\ firstLogger = 0 /\ l_entry = <<>> /\ l_result = <<>> /\ l_calls = 0
    /\ observers = <<>> /\ temperature = 0 /\ w_updates = <<>> /\ w_last = <<>> /\ w_calls = 0
    /\ activities = <<>> /\ act_before = <<>> /\ selected = <<>> /\ act_alg = "none"
    /\ d_graph = <<>> /\ d_start = 0 /\ d_result = <<>> /\ d_done = FALSE
    /\ b_s = <<>> /\ b_result = <<>> /\ b_done = FALSE
    /\ computers = <<>> /\ builder = <<>> /\ built = <<>>

\* select takes the case of a channel whose sender is ready, prints the
\* message, and the loop goes on: i++; i < 2
SelectReceive(k) ==
    /\ m_pc = "select"
    /\ snd_pc[k] = "send"
    /\ messages' = Append(messages, Messages[k])
    /\ snd_pc' = [snd_pc EXCEPT ![k] = "exit"]
    /\ sel_i' = sel_i + 1
    /\ m_pc' = IF selectLoopCond(sel_i + 1) THEN "select" ELSE "end"
    /\ UNCHANGED <<wgCounter, pn_pc, pn_i, printed, numbersClosed, closes, gen_pc, gen_i, received, bufferedCh, bufferedOut>>
    /\ UNCHANGED concOthers

\* ------------------------------------------------------ error-handling.go
\* the nil error
NilError == [kind |-> "nil"]

\* Go's dividend / divisor truncates toward zero
Quotient(dividend, divisor) ==
    LET abs(v) == IF v < 0 THEN -v ELSE v
        q == abs(dividend) \div abs(divisor)
    IN  IF (dividend < 0) = (divisor < 0) THEN q ELSE -q

\* func divide(dividend, divisor int) (int, error)
divide(dividend, divisor) ==
    IF divisor = 0
    THEN [result |-> 0,
          err |-> [kind |-> "DivisionError", dividend |-> dividend, divisor |-> divisor,
                   message |-> "cannot divide by zero"]]
    ELSE [result |-> Quotient(dividend, divisor), err |-> NilError]

\* func calculateSquareRoot(x float64) (float64, error)
calculateSquareRoot(x) ==
    IF x < 0
    THEN [result |-> 0,
          err |-> [kind |-> "errorString", message |-> "cannot calculate square root of negative number"]]
    ELSE [result |-> x * x, err |-> NilError]

\* a line of output: the format and its arguments
Line(format, args) == [format |-> format, args |-> args]

\* main: numbers := []int{10, 0, 5, 2} and calculateSquareRoot(-4)
MainNumbers == <<10, 0, 5, 2>>
MainX == -4

\* main from the panic and recover example on, statement by statement
MainTail ==
    <<[op |-> "println", arg |-> "\nPanic and Recover Example:"],
      [op |-> "defer",   arg |-> "recoverAndPrint"],
      [op |-> "panic",   arg |-> "something went wrong!"],
      [op |-> "println", arg |-> "This won't be printed"]>>

\* the value of no panic
NoPanic == "nil"

\* recover() in a deferred function returns the value of the panic under
\* way, or nil
recoverNothing(p) == NoPanic
recover(p) == p

\* result, err := divide(10, 0) and the if that prints one or the other
MainDivide ==
    /\ e_pc = "divide"
    /\ LET r == divide(10, 0)
       IN  e_out' = Append(e_out, IF r.err.kind # "nil"
                                  THEN Line("Error: %v\n", <<r.err>>)
                                  ELSE Line("Result: %d\n", <<r.result>>))
    /\ e_i' = 0
    /\ e_pc' = "loop"
    /\ UNCHANGED <<e_numbers, e_x, e_stmt, deferred, panicking, e_recovered>>
    /\ UNCHANGED errOthers

\* one round of for i := 0; i < len(numbers)-1; i++
MainLoop ==
    /\ e_pc = "loop"
    /\ IF e_i < Len(e_numbers) - 1
       THEN LET r == divide(At(e_numbers, e_i), At(e_numbers, e_i + 1))
            IN  /\ e_out' = Append(e_out,
                       IF r.err.kind # "nil"
                       THEN IF r.err.kind = "DivisionError"
                            THEN Line("Custom division error: %v\n", <<r.err>>)
                            ELSE Line("Other error: %v\n", <<r.err>>)
                       ELSE Line("%d / %d = %d\n", <<At(e_numbers, e_i), At(e_numbers, e_i + 1), r.result>>))
                /\ e_i' = e_i + 1
                /\ e_pc' = "loop"
       ELSE /\ e_pc' = "sqrt"
            /\ UNCHANGED <<e_out, e_i>>
    /\ UNCHANGED <<e_numbers, e_x, e_stmt, deferred, panicking, e_recovered>>
    /\ UNCHANGED errOthers

\* root, err := calculateSquareRoot(-4) and the if that prints one or the
\* other
MainSquareRoot ==
    /\ e_pc = "sqrt"
    /\ LET r == calculateSquareRoot(e_x)
       IN  e_out' = Append(e_out, IF r.err.kind # "nil"
                                  THEN Line("Square root error: %v\n", <<r.err>>)
                                  ELSE Line("Square: %f\n", <<r.result>>))
    /\ e_stmt' = 1
    /\ e_pc' = "tail"
    /\ UNCHANGED <<e_numbers, e_x, e_i, deferred, panicking, e_recovered>>
    /\ UNCHANGED errOthers

\* the next statement of the rest of main: a Println, the defer, or the
\* panic, which stops normal execution and starts running the deferred
\* functions; so does reaching the end of main
MainStatement ==
    /\ e_pc = "tail"
    /\ IF e_stmt <= Len(MainTail)
       THEN LET st == MainTail[e_stmt]
            IN  /\ e_out' = IF st.op = "println" THEN Append(e_out, Line(st.arg, <<>>)) ELSE e_out
                /\ deferred' = IF st.op = "defer" THEN <<st.arg>> \o deferred ELSE deferred
                /\ panicking' = IF st.op = "panic" THEN st.arg ELSE panicking
                /\ e_pc' = IF st.op = "panic" THEN "deferred" ELSE "tail"
                /\ e_stmt' = IF st.op = "panic" THEN e_stmt ELSE e_stmt + 1
       ELSE /\ e_pc' = "deferred"
            /\ UNCHANGED <<e_out, deferred, panicking, e_stmt>>
    /\ UNCHANGED <<e_numbers, e_x, e_i, e_recovered>>
    /\ UNCHANGED errOthers

\* the deferred function: if r := recover(); r != nil { fmt.Printf(...) };
\* a recovered panic is over
RunDeferred ==
    /\ e_pc = "deferred"
    /\ deferred # <<>>
    /\ deferred' = Tail(deferred)
    /\ LET r == recover(panicking)
       IN  /\ e_recovered' = r
           /\ panicking' = IF r # NoPanic THEN NoPanic ELSE panicking
           /\ e_out' = IF r # NoPanic
                       THEN Append(e_out, Line("Recovered from panic: %v\n", <<r>>))
                       ELSE e_out
    /\ UNCHANGED <<e_numbers, e_x, e_pc, e_i, e_stmt>>
    /\ UNCHANGED errOthers

\* main returns once its deferred functions have run; a panic still under
\* way crashes the program
MainReturn ==
    /\ e_pc = "deferred"
    /\ deferred = <<>>
    /\ e_pc' = IF panicking # NoPanic THEN "crashed" ELSE "exited"
    /\ UNCHANGED <<e_numbers, e_x, e_i, e_stmt, deferred, panicking, e_recovered, e_out>>
    /\ UNCHANGED errOthers

\* ---------------------------------- chain_of_responsibility.go, loggers
\* const ( INFO LogLevel = iota; DEBUG; ERROR )
INFO  == 0
DEBUG == 1
ERROR == 2

\* a Go string is the sequence of its characters
LogChars   == {"a", "b"}
LogEntries == [Message : SeqsUpTo(LogChars, MaxMessage), Level : -1..MaxLevel]

\* NewInfoLogger, NewDebugLogger, NewErrorLogger: next is nil
NewInfoLogger  == [kind |-> "InfoLogger", next |-> 0]
NewDebugLogger == [kind |-> "DebugLogger", next |-> 0]
NewErrorLogger == [kind |-> "ErrorLogger", next |-> 0]

\* func (l *BaseLogger) SetNext(logger Logger)
SetNextNothing(loggers, l, logger) == loggers
SetNext(loggers, l, logger) == [loggers EXCEPT ![l].next = logger]

RECURSIVE LoggerLog(_, _, _)

\* func (l *InfoLogger) Log(entry LogEntry) string
InfoLoggerLog(loggers, l, entry) ==
    IF entry.Level = INFO THEN <<"I", "n", "f", "o", ":", " ">> \o entry.Message
    ELSE IF loggers[l].next # 0 THEN LoggerLog(loggers, loggers[l].next, entry)
    ELSE <<>>

\* func (l *DebugLogger) Log(entry LogEntry) string
DebugLoggerLog(loggers, l, entry) ==
    IF entry.Level = DEBUG THEN <<"D", "e", "b", "u", "g", ":", " ">> \o entry.Message
    ELSE IF loggers[l].next # 0 THEN LoggerLog(loggers, loggers[l].next, entry)
    ELSE <<>>

\* func (l *ErrorLogger) Log(entry LogEntry) string
ErrorLoggerLog(loggers, l, entry) ==
    IF entry.Level = ERROR THEN <<"E", "r", "r", "o", "r", ":", " ">> \o entry.Message
    ELSE IF loggers[l].next # 0 THEN LoggerLog(loggers, loggers[l].next, entry)
    ELSE <<>>

\* the call of Log through the Logger interface
LoggerLog(loggers, l, entry) ==
    CASE loggers[l].kind = "InfoLogger"  -> InfoLoggerLog(loggers, l, entry)
      [] loggers[l].kind = "DebugLogger" -> DebugLoggerLog(loggers, l, entry)
      [] loggers[l].kind = "ErrorLogger" -> ErrorLoggerLog(loggers, l, entry)

\* func NewLoggerChain() *LoggerChain
NewLoggerChain ==
    LET allocated   == <<NewInfoLogger, NewDebugLogger, NewErrorLogger>>
        infoLogger  == 1
        debugLogger == 2
        errorLogger == 3
        linked      == SetNext(SetNext(allocated, infoLogger, debugLogger), debugLogger, errorLogger)
    IN  [loggers |-> linked, firstLogger |-> infoLogger]

\* func (c *LoggerChain) Log(entry LogEntry) string
LoggerChainLog(loggers, first, entry) == LoggerLog(loggers, first, entry)

\* loggerChain := behavioral.NewLoggerChain()
MakeLoggerChain ==
    /\ firstLogger = 0
    /\ l_heap' = NewLoggerChain.loggers
    /\ firstLogger' = NewLoggerChain.firstLogger
    /\ UNCHANGED <<l_entry, l_result, l_calls>>
    /\ UNCHANGED logOthers

\* loggerChain.Log(entry)
CallLog(entry) ==
    /\ firstLogger # 0
    /\ l_calls < MaxLogCalls
    /\ l_entry' = entry
    /\ l_result' = LoggerChainLog(l_heap, firstLogger, entry)
    /\ l_calls' = l_calls + 1
    /\ UNCHANGED <<l_heap, firstLogger>>
    /\ UNCHANGED logOthers

\* ---------------------------------------------------- part_002, observer
\* the *TemperatureDisplay values a caller registers; temperatures
Observers    == 1..MaxObserver
Temperatures == 1..(MaxTemp + 1)

\* func (w *WeatherStation) RegisterObserver(o Observer)
RegisterObserver(obs, o) == Append(obs, o)

\* for i, observer := range w.observers { if observer == o { ...; break } }
RECURSIVE removeLoop(_, _, _)
removeLoop(obs, o, i) ==
    IF i < Len(obs)
    THEN IF At(obs, i) = o
         THEN Slice(obs, 0, i) \o Slice(obs, i + 1, Len(obs))
         ELSE removeLoop(obs, o, i + 1)
    ELSE obs

\* func (w *WeatherStation) RemoveObserver(o Observer)
RemoveObserver(obs, o) == removeLoop(obs, o, 0)

\* func (w *WeatherStation) NotifyObservers(): the Update calls made, each
\* with w.temperature as it is at the call
RECURSIVE notifyLoop(_, _, _)
notifyLoop(w, i, calls) ==
    IF i < Len(w.observers)
    THEN notifyLoop(w, i + 1, Append(calls, [observer |-> At(w.observers, i), temperature |-> w.temperature]))
    ELSE calls

NotifyObservers(w) == notifyLoop(w, 0, <<>>)

\* func (w *WeatherStation) SetTemperature(temp float64): the station and
\* the Update calls made
SetTemperatureNotifyFirst(w, temp) ==
    [station |-> [w EXCEPT !.temperature = temp], updates |-> NotifyObservers(w)]
SetTemperature(w, temp) ==
    LET stored == [w EXCEPT !.temperature = temp]
    IN  [station |-> stored, updates |-> NotifyObservers(stored)]

WRegisterObserver(o) ==
    /\ w_calls < MaxStationCalls
    /\ observers' = RegisterObserver(observers, o)
    /\ w_last' = [op |-> "RegisterObserver", arg |-> o, before |-> observers]
    /\ w_calls' = w_calls + 1
    /\ UNCHANGED <<temperature, w_updates>>
    /\ UNCHANGED obsOthers

WRemoveObserver(o) ==
    /\ w_calls < MaxStationCalls
    /\ observers' = RemoveObserver(observers, o)
    /\ w_last' = [op |-> "RemoveObserver", arg |-> o, before |-> observers]
    /\ w_calls' = w_calls + 1
    /\ UNCHANGED <<temperature, w_updates>>
    /\ UNCHANGED obsOthers

WSetTemperature(temp) ==
    /\ w_calls < MaxStationCalls
    /\ LET r == SetTemperature([observers |-> observers, temperature |-> temperature], temp)
       IN  /\ observers' = r.station.observers
           /\ temperature' = r.station.temperature
           /\ w_updates' = r.updates
    /\ w_last' = [op |-> "SetTemperature", arg |-> temp, before |-> observers]
    /\ w_calls' = w_calls + 1
    /\ UNCHANGED obsOthers

\* ------------------------------------------------------ part_003, greedy
\* type Activity struct { Start int; End int }
Activity(start, end) == [Start |-> start, End |-> end]
Activities == {Activity(s, e) : s, e \in 0..MaxTime}

\* main: activities := []Activity{{1, 4}, {3, 5}, ...}
MainActivities ==
    <<Activity(1, 4), Activity(3, 5), Activity(0, 6), Activity(5, 7), Activity(3, 9), Activity(5, 9),
      Activity(6, 10), Activity(8, 11), Activity(8, 12), Activity(2, 14), Activity(12, 16)>>

\* sort.Slice(activities, func(i, j int) bool { return activities[i].End <
\* activities[j].End }) sorts the slice in place and is not stable: every
\* order of the elements that is ascending in End can come out
RECURSIVE sortedOrders(_, _)
sortedOrders(acts, remaining) ==
    IF remaining = {} THEN {<<>>}
    ELSE UNION {{<<acts[i]>> \o rest : rest \in sortedOrders(acts, remaining \ {i})} :
                i \in {k \in remaining : \A j \in remaining : ~(acts[j].End < acts[k].End)}}

sortSlice(acts) == sortedOrders(acts, 1..Len(acts))

\* for i := 1; i < len(activities); i++ { if activities[i].Start >= lastEnd ... }
RECURSIVE selectLoop(_, _, _, _)
selectLoop(acts, i, sel, lastEnd) ==
    IF i < Len(acts)
    THEN IF At(acts, i).Start >= lastEnd
         THEN selectLoop(acts, i + 1, Append(sel, At(acts, i)), At(acts, i).End)
         ELSE selectLoop(acts, i + 1, sel, lastEnd)
    ELSE sel

\* func ActivitySelection(activities []Activity) []Activity, after the
\* sort: sorted is the caller's slice as sort.Slice left it
ActivitySelection(sorted) ==
    IF Len(sorted) = 0 THEN <<>>
    ELSE selectLoop(sorted, 1, <<At(sorted, 0)>>, At(sorted, 0).End)

\* selected := ActivitySelection(activities): the sort works on the
\* caller's slice
RunActivitySelection ==
    /\ act_alg = "none"
    /\ \E sorted \in sortSlice(activities) :
           /\ activities' = sorted
           /\ selected' = ActivitySelection(sorted)
    /\ act_alg' = "ActivitySelection"
    /\ UNCHANGED act_before
    /\ UNCHANGED greedyOthers

\* ---------------------------------------------------- part_003, Dijkstra
\* type Edge struct { To int; Weight int }
Edge(to, weight) == [To |-> to, Weight |-> weight]

\* int(1e9)
Infinity == 1000000000

\* the graphs of n vertices with at most budget edges: the edge lists of
\* the vertices v, ..., n - 1
RECURSIVE EdgeLists(_, _, _)
EdgeLists(n, v, budget) ==
    IF v = n THEN {<<>>}
    ELSE LET edges == {Edge(to, w) : to \in 0..(n - 1), w \in 0..MaxDWeight}
         IN  UNION {{<<list>> \o rest : rest \in EdgeLists(n, v + 1, budget - Len(list))} :
                    list \in SeqsUpTo(edges, budget)}

DijkstraInputs ==
    UNION {EdgeLists(n, 0, MaxDEdges) \X (0..(n - 1)) : n \in 1..MaxDVertices}

\* main: graph := [][]Edge{ ... }
MainGraph ==
    <<<<Edge(1, 4), Edge(2, 1)>>, <<Edge(3, 1)>>, <<Edge(1, 2), Edge(3, 5)>>, <<Edge(4, 3)>>, <<>>>>

\* sort.Slice(pq, func(i, j int) bool { return pq[i][1] < pq[j][1] }) is
\* not stable: every order of the entries that is ascending in the
\* distance can come out
RECURSIVE pqOrders(_, _)
pqOrders(pq, remaining) ==
    IF remaining = {} THEN {<<>>}
    ELSE UNION {{<<pq[i]>> \o rest : rest \in pqOrders(pq, remaining \ {i})} :
                i \in {k \in remaining : \A j \in remaining : ~(pq[j][2] < pq[k][2])}}

\* for _, edge := range graph[u] { ... }: the dist and pq that can result
RECURSIVE relaxEdges(_, _, _, _, _)
relaxEdges(graph, u, k, dist, pq) ==
    IF k < Len(At(graph, u))
    THEN LET edge    == At(At(graph, u), k)
             v       == edge.To
             newDist == At(dist, u) + edge.Weight
         IN  IF newDist < At(dist, v)
             THEN LET pushed == Append(pq, <<v, newDist>>)
                  IN  UNION {relaxEdges(graph, u, k + 1, Set(dist, v, newDist), sorted) :
                             sorted \in pqOrders(pushed, 1..Len(pushed))}
             ELSE relaxEdges(graph, u, k + 1, dist, pq)
    ELSE {[dist |-> dist, pq |-> pq]}

\* dist := make([]int, n); for i := range dist { dist[i] = Infinity }
RECURSIVE fillInfinity(_)
fillInfinity(n) ==
    IF n = 0 THEN <<>> ELSE Append(fillInfinity(n - 1), Infinity)

\* d > dist[u]: the entry is stale and is skipped
staleNever(d, du) == d > d
stale(d, du) == d > du

\* for len(pq) > 0 { ... }: the results that can come out; pops collects
\* the entries popped and not skipped, with dist[u] at the time
RECURSIVE dijkstraLoop(_, _, _, _)
dijkstraLoop(graph, dist, pq, pops) ==
    IF Len(pq) > 0
    THEN LET curr == At(pq, 0)
             rest == Slice(pq, 1, Len(pq))
             u    == curr[1]
             d    == curr[2]
         IN  IF stale(d, At(dist, u))
             THEN dijkstraLoop(graph, dist, rest, pops)
             ELSE UNION {dijkstraLoop(graph, s.dist, s.pq, Append(pops, [u |-> u, d |-> At(dist, u), entry |-> d])) :
                         s \in relaxEdges(graph, u, 0, dist, rest)}
    ELSE {[dist |-> dist, pops |-> pops]}

\* func DijkstraShortestPath(graph [][]Edge, start int) []int
DijkstraShortestPath(graph, start) ==
    LET n    == Len(graph)
        dist == Set(fillInfinity(n), start, 0)
    IN  dijkstraLoop(graph, dist, <<<<start, 0>>>>, <<>>)

\* distances := DijkstraShortestPath(graph, 0)
RunDijkstra ==
    /\ ~d_done
    /\ d_result' \in DijkstraShortestPath(d_graph, d_start)
    /\ d_done' = TRUE
    /\ UNCHANGED <<d_graph, d_start>>
    /\ UNCHANGED dijOthers

\* ------------------------------------------------ stack.go, isValidBrackets
\* the characters of the strings: the two brackets and one other character
BracketChars == {"(", ")", "a"}

\* main: testCases := []string{"((()))", "(()())", "(()", ")("}
testCases ==
    << <<"(", "(", "(", ")", ")", ")">>, <<"(", "(", ")", "(", ")", ")">>,
       <<"(", "(", ")">>, <<")", "(">> >>

\* ch == ')': return false on the empty stack, Pop otherwise
closeBracketUnchecked(stack) == [returnFalse |-> FALSE, items |-> StackPop(stack).items]
closeBracket(stack) ==
    IF StackIsEmpty(stack)
    THEN [returnFalse |-> TRUE, items |-> stack]
    ELSE [returnFalse |-> FALSE, items |-> StackPop(stack).items]

\* for _, ch := range s { ... } and the return after it; i characters
\* have been ranged over
RECURSIVE bracketsLoop(_, _, _)
bracketsLoop(s, i, stack) ==
    IF i < Len(s)
    THEN LET ch == At(s, i)
         IN  IF ch = "("
             THEN bracketsLoop(s, i + 1, StackPush(stack, 1))
             ELSE IF ch = ")"
                  THEN IF closeBracket(stack).returnFalse
                       THEN [valid |-> FALSE, read |-> i + 1]
                       ELSE bracketsLoop(s, i + 1, closeBracket(stack).items)
                  ELSE bracketsLoop(s, i + 1, stack)
    ELSE [valid |-> StackIsEmpty(stack), read |-> i]

\* func isValidBrackets(s string) bool
isValidBrackets(s) == bracketsLoop(s, 0, <<>>)

\* isValidBrackets(test)
RunIsValidBrackets ==
    /\ ~b_done
    /\ b_result' = isValidBrackets(b_s)
    /\ b_done' = TRUE
    /\ UNCHANGED b_s
    /\ UNCHANGED brOthers

\* ------------------------------------------------------ part_001, builder
\* type Computer struct { CPU string; RAM int; Storage int; GPU string; Bluetooth bool }
Computer(cpu, ram, storage, gpu, bluetooth) ==
    [CPU |-> cpu, RAM |-> ram, Storage |-> storage, GPU |-> gpu, Bluetooth |-> bluetooth]

\* &Computer{}
ZeroComputer == Computer("", 0, 0, "", FALSE)

\* return &concreteComputerBuilder{computer: &Computer{}}; computer is the
\* address of the Computer allocated for it
NewComputerBuilder(computer) == [computer |-> computer]

\* the Set methods write through b.computer and return b
SetCPU(objs, b, cpu) == [objs EXCEPT ![b.computer].CPU = cpu]

SetRAM(objs, b, ram) == [objs EXCEPT ![b.computer].RAM = ram]

SetStorage(objs, b, storage) == [objs EXCEPT ![b.computer].Storage = storage]

SetGPU(objs, b, gpu) == [objs EXCEPT ![b.computer].GPU = gpu]

SetBluetooth(objs, b, hasBluetooth) == [objs EXCEPT ![b.computer].Bluetooth = hasBluetooth]

\* func (b *concreteComputerBuilder) Build() *Computer
Build(b) == b.computer

\* func (d *Director) BuildGamingPC() *Computer: the objects after the five
\* Set calls; Build returns the builder's pointer
BuildGamingPC(objs, b) ==
    SetBluetooth(SetGPU(SetStorage(SetRAM(SetCPU(objs, b, "Intel i9"), b, 32), b, 2000), b, "RTX 4080"), b, TRUE)

\* func (d *Director) BuildOfficePC() *Computer
BuildOfficePC(objs, b) ==
    SetBluetooth(SetGPU(SetStorage(SetRAM(SetCPU(objs, b, "Intel i5"), b, 16), b, 512), b, "Integrated"), b, TRUE)

\* one call: the method, the *Computer it returned, the fields of that
\* Computer at the return
Built(op, ref, objs) == [op |-> op, ref |-> ref, fields |-> objs[ref]]

\* gamingPC := director.BuildGamingPC()
CallBuildGamingPC ==
    /\ Len(built) < MaxBuilds
    /\ computers' = BuildGamingPC(computers, builder)
    /\ built' = Append(built, Built("BuildGamingPC", Build(builder), computers'))
    /\ UNCHANGED builder
    /\ UNCHANGED bldOthers

\* officePC := director.BuildOfficePC()
CallBuildOfficePC ==
    /\ Len(built) < MaxBuilds
    /\ computers' = BuildOfficePC(computers, builder)
    /\ built' = Append(built, Built("BuildOfficePC", Build(builder), computers'))
    /\ UNCHANGED builder
    /\ UNCHANGED bldOthers

\* builder.SetRAM(ram).Build(), a caller that uses the builder directly
CallSetRAMBuild(ram) ==
    /\ Len(built) < MaxBuilds
    /\ computers' = SetRAM(computers, builder, ram)
    /\ built' = Append(built, Built("Build", Build(builder), computers'))
    /\ UNCHANGED builder
    /\ UNCHANGED bldOthers

\* -------------------------------------------------------- specifications
SortNext ==
    \/ RunBubbleSort
    \/ RunQuickSort
    \/ RunMergeSort
    \/ RunInsertionSort

SearchNext ==
    \/ RunBinarySearch
    \/ RunLinearSearch
    \/ RunJumpSearch
    \/ RunInterpolationSearch

ContNext ==
    \/ \E item \in Items : Push(item)
    \/ Pop
    \/ Peek
    \/ \E item \in Items : Enqueue(item)
    \/ Dequeue
    \/ QPeek

\* main searches 4 and 9; a free caller searches any value of TreeValues
TreeNext ==
    \/ \E value \in TreeValues : TreeInsert(value)
    \/ MainInsert
    \/ \E value \in TreeValues \cup {4, 9} : TreeSearch(value)

GraphNext ==
    \/ \E vertex \in Vertices : GAddVertex(vertex)
    \/ \E vertex1, vertex2 \in Vertices : GAddEdge(vertex1, vertex2)
    \/ \E start \in Vertices : RunBFS(start)
    \/ \E start \in Vertices : RunDFS(start)

ListNext ==
    \/ \E data \in ListValues : LInsert(data)
    \/ \E data \in ListValues : LDelete(data)

StrNext ==
    \/ RunKMPSearch
    \/ RunLevenshteinDistance
    \/ RunRabinKarp

SingleNext ==
    \E g \in Goroutines :
        \/ CallGetInstance(g)
        \/ OnceDo(g)
        \/ OnceLock(g)
        \/ OnceRun(g)
        \/ OnceStore(g)
        \/ OnceUnlock(g)
        \/ GetInstanceReturn(g)
        \/ IncrementCountRead(g)
        \/ IncrementCountWrite(g)
        \/ IncrementCountReturn(g)

ConcNext ==
    \/ WgAdd
    \/ \E k \in Printers : GoPrintNumbers(k)
    \/ \E k \in Printers : PrintLoop(k)
    \/ \E k \in Printers : PrintSleep(k)
    \/ \E k \in Printers : PrintNumber(k)
    \/ \E k \in Printers : WgDone(k)
    \/ WgWait
    \/ GoGenerateNumbers
    \/ GenerateLoop
    \/ SendReceiveNumber
    \/ GenerateSleep
    \/ CloseNumbers
    \/ RangeEnd
    \/ BufferedSend
    \/ BufferedReceive
    \/ \E k \in Senders : GoSender(k)
    \/ \E k \in Senders : SenderSleep(k)
    \/ SelectInit
    \/ \E k \in Senders : SelectReceive(k)

\* the Go scheduler runs every goroutine that can take a step
ConcFairness ==
    /\ WF_vars(WgAdd)
    /\ \A k \in Printers : WF_vars(GoPrintNumbers(k)) /\ WF_vars(PrintLoop(k)) /\ WF_vars(PrintSleep(k))
                           /\ WF_vars(PrintNumber(k)) /\ WF_vars(WgDone(k))
    /\ WF_vars(WgWait) /\ WF_vars(GoGenerateNumbers) /\ WF_vars(GenerateLoop)
    /\ WF_vars(SendReceiveNumber) /\ WF_vars(GenerateSleep) /\ WF_vars(CloseNumbers)
    /\ WF_vars(RangeEnd) /\ WF_vars(BufferedSend) /\ WF_vars(BufferedReceive)
    /\ \A k \in Senders : WF_vars(GoSender(k)) /\ WF_vars(SenderSleep(k)) /\ WF_vars(SelectReceive(k))
    /\ WF_vars(SelectInit)

ErrNext ==
    \/ MainDivide
    \/ MainLoop
    \/ MainSquareRoot
    \/ MainStatement
    \/ RunDeferred
    \/ MainReturn

LogNext ==
    \/ MakeLoggerChain
    \/ \E entry \in LogEntries : CallLog(entry)

ObsNext ==
    \/ \E o \in Observers : WRegisterObserver(o)
    \/ \E o \in Observers : WRemoveObserver(o)
    \/ \E temp \in Temperatures : WSetTemperature(temp)

GreedyNext == RunActivitySelection

DijNext == RunDijkstra

BrNext == RunIsValidBrackets

BldNext ==
    \/ CallBuildGamingPC
    \/ CallBuildOfficePC
    \/ \E ram \in {8, 64} : CallSetRAMBuild(ram)

\* Init of each program; the variables of the programs that are not running
\* are held at an idle value
SortInit ==
    /\ sortInput \in SeqsUpTo(Values, MaxLen)
    /\ sortResult = <<>>
    /\ sortAlg = "none"
    /\ searchArr = <<>> /\ searchTarget = 0 /\ searchResult = -1 /\ searchAlg = "none"
    /\ s_items = <<>> /\ s_hist = <<>> /\ q_items = <<>> /\ q_hist = <<>>
    /\ heap = <<>> /\ Root = 0 /\ inserted = <<>> /\ treeMode = "free" /\ searched = <<>>
    /\ vertices = <<>> /\ traversal = <<>>
    /\ ll_nodes = <<>> /\ head = 0 /\ ll_ref = <<>> /\ ll_last = <<>> /\ ll_calls = 0
    /\ text = <<>> /\ pattern = <<>> /\ strAlg = "none" /\ strResult = <<>>
    /\ instance = 0 /\ onceDone = FALSE /\ onceM = 0 /\ objects = <<>> /\ initRuns = 0 /\ sg_pc = <<>> /\ sg_ref = <<>> /\ sg_tmp = <<>> /\ sg_val = <<>> /\ returned = {}
    /\ m_pc = "none" /\ wgCounter = 0 /\ pn_pc = <<>> /\ pn_i = <<>> /\ printed = <<>> /\ numbersClosed = FALSE /\ closes = 0 /\ gen_pc = "none" /\ gen_i = 0 /\ received = <<>> /\ bufferedCh = <<>> /\ bufferedOut = <<>> /\ snd_pc = <<>> /\ sel_i = 0 /\ messages = <<>>
    /\ e_numbers = <<>> /\ e_x = 0 /\ e_pc = "none" /\ e_i = 0 /\ e_stmt = 0 /\ deferred = <<>> /\ panicking = "nil" /\ e_recovered = "nil" /\ e_out = <<>>
    /\ l_heap = <<>> /\ firstLogger = 0 /\ l_entry = <<>> /\ l_result = <<>> /\ l_calls = 0
    /\ observers = <<>> /\ temperature = 0 /\ w_updates = <<>> /\ w_last = <<>> /\ w_calls = 0
    /\ activities = <<>> /\ act_before = <<>> /\ selected = <<>> /\ act_alg = "none"
    /\ d_graph = <<>> /\ d_start = 0 /\ d_result = <<>> /\ d_done = FALSE
    /\ b_s = <<>> /\ b_result = <<>> /\ b_done = FALSE
    /\ computers = <<>> /\ builder = <<>> /\ built = <<>>

SearchInit ==
    /\ searchArr \in SeqsUpTo(Values, MaxLen)
    /\ searchTarget \in Values
    /\ searchResult = -1
    /\ searchAlg = "none"
    /\ sortInput = <<>> /\ sortResult = <<>> /\ sortAlg = "none"
    /\ s_items = <<>> /\ s_hist = <<>> /\ q_items = <<>> /\ q_hist = <<>>
    /\ heap = <<>> /\ Root = 0 /\ inserted = <<>> /\ treeMode = "free" /\ searched = <<>>
    /\ vertices = <<>> /\ traversal = <<>>
    /\ ll_nodes = <<>> /\ head = 0 /\ ll_ref = <<>> /\ ll_last = <<>> /\ ll_calls = 0
    /\ text = <<>> /\ pattern = <<>> /\ strAlg = "none" /\ strResult = <<>>
    /\ instance = 0 /\ onceDone = FALSE /\ onceM = 0 /\ objects = <<>> /\ initRuns = 0 /\ sg_pc = <<>> /\ sg_ref = <<>> /\ sg_tmp = <<>> /\ sg_val = <<>> /\ returned = {}
    /\ m_pc = "none" /\ wgCounter = 0 /\ pn_pc = <<>> /\ pn_i = <<>> /\ printed = <<>> /\ numbersClosed = FALSE /\ closes = 0 /\ gen_pc = "none" /\ gen_i = 0 /\ received = <<>> /\ bufferedCh = <<>> /\ bufferedOut = <<>> /\ snd_pc = <<>> /\ sel_i = 0 /\ messages = <<>>
    /\ e_numbers = <<>> /\ e_x = 0 /\ e_pc = "none" /\ e_i = 0 /\ e_stmt = 0 /\ deferred = <<>> /\ panicking = "nil" /\ e_recovered = "nil" /\ e_out = <<>>
    /\ l_heap = <<>> /\ firstLogger = 0 /\ l_entry = <<>> /\ l_result = <<>> /\ l_calls = 0
    /\ observers = <<>> /\ temperature = 0 /\ w_updates = <<>> /\ w_last = <<>> /\ w_calls = 0
    /\ activities = <<>> /\ act_before = <<>> /\ selected = <<>> /\ act_alg = "none"
    /\ d_graph = <<>> /\ d_start = 0 /\ d_result = <<>> /\ d_done = FALSE
    /\ b_s = <<>> /\ b_result = <<>> /\ b_done = FALSE
    /\ computers = <<>> /\ builder = <<>> /\ built = <<>>

ContInit ==
    /\ s_items = <<>>
    /\ s_hist = <<>>
    /\ q_items = <<>>
    /\ q_hist = <<>>
    /\ sortInput = <<>> /\ sortResult = <<>> /\ sortAlg = "none"
    /\ searchArr = <<>> /\ searchTarget = 0 /\ searchResult = -1 /\ searchAlg = "none"
    /\ heap = <<>> /\ Root = 0 /\ inserted = <<>> /\ treeMode = "free" /\ searched = <<>>
    /\ vertices = <<>> /\ traversal = <<>>
    /\ ll_nodes = <<>> /\ head = 0 /\ ll_ref = <<>> /\ ll_last = <<>> /\ ll_calls = 0
    /\ text = <<>> /\ pattern = <<>> /\ strAlg = "none" /\ strResult = <<>>
    /\ instance = 0 /\ onceDone = FALSE /\ onceM = 0 /\ objects = <<>> /\ initRuns = 0 /\ sg_pc = <<>> /\ sg_ref = <<>> /\ sg_tmp = <<>> /\ sg_val = <<>> /\ returned = {}
    /\ m_pc = "none" /\ wgCounter = 0 /\ pn_pc = <<>> /\ pn_i = <<>> /\ printed = <<>> /\ numbersClosed = FALSE /\ closes = 0 /\ gen_pc = "none" /\ gen_i = 0 /\ received = <<>> /\ bufferedCh = <<>> /\ bufferedOut = <<>> /\ snd_pc = <<>> /\ sel_i = 0 /\ messages = <<>>
    /\ e_numbers = <<>> /\ e_x = 0 /\ e_pc = "none" /\ e_i = 0 /\ e_stmt = 0 /\ deferred = <<>> /\ panicking = "nil" /\ e_recovered = "nil" /\ e_out = <<>>
    /\ l_heap = <<>> /\ firstLogger = 0 /\ l_entry = <<>> /\ l_result = <<>> /\ l_calls = 0
    /\ observers = <<>> /\ temperature = 0 /\ w_updates = <<>> /\ w_last = <<>> /\ w_calls = 0
    /\ activities = <<>> /\ act_before = <<>> /\ selected = <<>> /\ act_alg = "none"
    /\ d_graph = <<>> /\ d_start = 0 /\ d_result = <<>> /\ d_done = FALSE
    /\ b_s = <<>> /\ b_result = <<>> /\ b_done = FALSE
    /\ computers = <<>> /\ builder = <<>> /\ built = <<>>

TreeInit ==
    /\ heap = <<>>
    /\ Root = 0
    /\ inserted = <<>>
    /\ treeMode \in {"free", "main"}
    /\ searched = <<>>
    /\ sortInput = <<>> /\ sortResult = <<>> /\ sortAlg = "none"
    /\ searchArr = <<>> /\ searchTarget = 0 /\ searchResult = -1 /\ searchAlg = "none"
    /\ s_items = <<>> /\ s_hist = <<>> /\ q_items = <<>> /\ q_hist = <<>>
    /\ vertices = <<>> /\ traversal = <<>>
    /\ ll_nodes = <<>> /\ head = 0 /\ ll_ref = <<>> /\ ll_last = <<>> /\ ll_calls = 0
    /\ text = <<>> /\ pattern = <<>> /\ strAlg = "none" /\ strResult = <<>>
    /\ instance = 0 /\ onceDone = FALSE /\ onceM = 0 /\ objects = <<>> /\ initRuns = 0 /\ sg_pc = <<>> /\ sg_ref = <<>> /\ sg_tmp = <<>> /\ sg_val = <<>> /\ returned = {}
    /\ m_pc = "none" /\ wgCounter = 0 /\ pn_pc = <<>> /\ pn_i = <<>> /\ printed = <<>> /\ numbersClosed = FALSE /\ closes = 0 /\ gen_pc = "none" /\ gen_i = 0 /\ received = <<>> /\ bufferedCh = <<>> /\ bufferedOut = <<>> /\ snd_pc = <<>> /\ sel_i = 0 /\ messages = <<>>
    /\ e_numbers = <<>> /\ e_x = 0 /\ e_pc = "none" /\ e_i = 0 /\ e_stmt = 0 /\ deferred = <<>> /\ panicking = "nil" /\ e_recovered = "nil" /\ e_out = <<>>
    /\ l_heap = <<>> /\ firstLogger = 0 /\ l_entry = <<>> /\ l_result = <<>> /\ l_calls = 0
    /\ observers = <<>> /\ temperature = 0 /\ w_updates = <<>> /\ w_last = <<>> /\ w_calls = 0
    /\ activities = <<>> /\ act_before = <<>> /\ selected = <<>> /\ act_alg = "none"
    /\ d_graph = <<>> /\ d_start = 0 /\ d_result = <<>> /\ d_done = FALSE
    /\ b_s = <<>> /\ b_result = <<>> /\ b_done = FALSE
    /\ computers = <<>> /\ builder = <<>> /\ built = <<>>

GraphInit ==
    /\ vertices = NewGraph
    /\ traversal = <<>>
    /\ sortInput = <<>> /\ sortResult = <<>> /\ sortAlg = "none"
    /\ searchArr = <<>> /\ searchTarget = 0 /\ searchResult = -1 /\ searchAlg = "none"
    /\ s_items = <<>> /\ s_hist = <<>> /\ q_items = <<>> /\ q_hist = <<>>
    /\ heap = <<>> /\ Root = 0 /\ inserted = <<>> /\ treeMode = "free" /\ searched = <<>>
    /\ ll_nodes = <<>> /\ head = 0 /\ ll_ref = <<>> /\ ll_last = <<>> /\ ll_calls = 0
    /\ text = <<>> /\ pattern = <<>> /\ strAlg = "none" /\ strResult = <<>>
    /\ instance = 0 /\ onceDone = FALSE /\ onceM = 0 /\ objects = <<>> /\ initRuns = 0 /\ sg_pc = <<>> /\ sg_ref = <<>> /\ sg_tmp = <<>> /\ sg_val = <<>> /\ returned = {}
    /\ m_pc = "none" /\ wgCounter = 0 /\ pn_pc = <<>> /\ pn_i = <<>> /\ printed = <<>> /\ numbersClosed = FALSE /\ closes = 0 /\ gen_pc = "none" /\ gen_i = 0 /\ received = <<>> /\ bufferedCh = <<>> /\ bufferedOut = <<>> /\ snd_pc = <<>> /\ sel_i = 0 /\ messages = <<>>
    /\ e_numbers = <<>> /\ e_x = 0 /\ e_pc = "none" /\ e_i = 0 /\ e_stmt = 0 /\ deferred = <<>> /\ panicking = "nil" /\ e_recovered = "nil" /\ e_out = <<>>
    /\ l_heap = <<>> /\ firstLogger = 0 /\ l_entry = <<>> /\ l_result = <<>> /\ l_calls = 0
    /\ observers = <<>> /\ temperature = 0 /\ w_updates = <<>> /\ w_last = <<>> /\ w_calls = 0
    /\ activities = <<>> /\ act_before = <<>> /\ selected = <<>> /\ act_alg = "none"
    /\ d_graph = <<>> /\ d_start = 0 /\ d_result = <<>> /\ d_done = FALSE
    /\ b_s = <<>> /\ b_result = <<>> /\ b_done = FALSE
    /\ computers = <<>> /\ builder = <<>> /\ built = <<>>

ListInit ==
    /\ ll_nodes = <<>>
    /\ head = 0
    /\ ll_ref = <<>>
    /\ ll_last = <<>>
    /\ ll_calls = 0
    /\ sortInput = <<>> /\ sortResult = <<>> /\ sortAlg = "none"
    /\ searchArr = <<>> /\ searchTarget = 0 /\ searchResult = -1 /\ searchAlg = "none"
    /\ s_items = <<>> /\ s_hist = <<>> /\ q_items = <<>> /\ q_hist = <<>>
    /\ heap = <<>> /\ Root = 0 /\ inserted = <<>> /\ treeMode = "free" /\ searched = <<>>
    /\ vertices = <<>> /\ traversal = <<>>
    /\ text = <<>> /\ pattern = <<>> /\ strAlg = "none" /\ strResult = <<>>
    /\ instance = 0 /\ onceDone = FALSE /\ onceM = 0 /\ objects = <<>> /\ initRuns = 0 /\ sg_pc = <<>> /\ sg_ref = <<>> /\ sg_tmp = <<>> /\ sg_val = <<>> /\ returned = {}
    /\ m_pc = "none" /\ wgCounter = 0 /\ pn_pc = <<>> /\ pn_i = <<>> /\ printed = <<>> /\ numbersClosed = FALSE /\ closes = 0 /\ gen_pc = "none" /\ gen_i = 0 /\ received = <<>> /\ bufferedCh = <<>> /\ bufferedOut = <<>> /\ snd_pc = <<>> /\ sel_i = 0 /\ messages = <<>>
    /\ e_numbers = <<>> /\ e_x = 0 /\ e_pc = "none" /\ e_i = 0 /\ e_stmt = 0 /\ deferred = <<>> /\ panicking = "nil" /\ e_recovered = "nil" /\ e_out = <<>>
    /\ l_heap = <<>> /\ firstLogger = 0 /\ l_entry = <<>> /\ l_result = <<>> /\ l_calls = 0
    /\ observers = <<>> /\ temperature = 0 /\ w_updates = <<>> /\ w_last = <<>> /\ w_calls = 0
    /\ activities = <<>> /\ act_before = <<>> /\ selected = <<>> /\ act_alg = "none"
    /\ d_graph = <<>> /\ d_start = 0 /\ d_result = <<>> /\ d_done = FALSE
    /\ b_s = <<>> /\ b_result = <<>> /\ b_done = FALSE
    /\ computers = <<>> /\ builder = <<>> /\ built = <<>>

StrInit ==
    /\ \E p \in (SeqsUpTo(Alphabet, MaxText) \X SeqsUpTo(Alphabet, MaxPattern)) \cup MainStrings :
           text = p[1] /\ pattern = p[2]
    /\ strAlg = "none"
    /\ strResult = <<>>
    /\ sortInput = <<>> /\ sortResult = <<>> /\ sortAlg = "none"
    /\ searchArr = <<>> /\ searchTarget = 0 /\ searchResult = -1 /\ searchAlg = "none"
    /\ s_items = <<>> /\ s_hist = <<>> /\ q_items = <<>> /\ q_hist = <<>>
    /\ heap = <<>> /\ Root = 0 /\ inserted = <<>> /\ treeMode = "free" /\ searched = <<>>
    /\ vertices = <<>> /\ traversal = <<>>
    /\ ll_nodes = <<>> /\ head = 0 /\ ll_ref = <<>> /\ ll_last = <<>> /\ ll_calls = 0
    /\ instance = 0 /\ onceDone = FALSE /\ onceM = 0 /\ objects = <<>> /\ initRuns = 0 /\ sg_pc = <<>> /\ sg_ref = <<>> /\ sg_tmp = <<>> /\ sg_val = <<>> /\ returned = {}
    /\ m_pc = "none" /\ wgCounter = 0 /\ pn_pc = <<>> /\ pn_i = <<>> /\ printed = <<>> /\ numbersClosed = FALSE /\ closes = 0 /\ gen_pc = "none" /\ gen_i = 0 /\ received = <<>> /\ bufferedCh = <<>> /\ bufferedOut = <<>> /\ snd_pc = <<>> /\ sel_i = 0 /\ messages = <<>>
    /\ e_numbers = <<>> /\ e_x = 0 /\ e_pc = "none" /\ e_i = 0 /\ e_stmt = 0 /\ deferred = <<>> /\ panicking = "nil" /\ e_recovered = "nil" /\ e_out = <<>>
    /\ l_heap = <<>> /\ firstLogger = 0 /\ l_entry = <<>> /\ l_result = <<>> /\ l_calls = 0
    /\ observers = <<>> /\ temperature = 0 /\ w_updates = <<>> /\ w_last = <<>> /\ w_calls = 0
    /\ activities = <<>> /\ act_before = <<>> /\ selected = <<>> /\ act_alg = "none"
    /\ d_graph = <<>> /\ d_start = 0 /\ d_result = <<>> /\ d_done = FALSE
    /\ b_s = <<>> /\ b_result = <<>> /\ b_done = FALSE
    /\ computers = <<>> /\ builder = <<>> /\ built = <<>>

SingleInit ==
    /\ instance = 0 /\ onceDone = FALSE /\ onceM = 0 /\ objects = <<>> /\ initRuns = 0
    /\ sg_pc = [g \in Goroutines |-> "idle"]
    /\ sg_ref = [g \in Goroutines |-> <<>>]
    /\ sg_tmp = [g \in Goroutines |-> 0]
    /\ sg_val = [g \in Goroutines |-> 0]
    /\ returned = {}
    /\ sortInput = <<>> /\ sortResult = <<>> /\ sortAlg = "none"
    /\ searchArr = <<>> /\ searchTarget = 0 /\ searchResult = -1 /\ searchAlg = "none"
    /\ s_items = <<>> /\ s_hist = <<>> /\ q_items = <<>> /\ q_hist = <<>>
    /\ heap = <<>> /\ Root = 0 /\ inserted = <<>> /\ treeMode = "free" /\ searched = <<>>
    /\ vertices = <<>> /\ traversal = <<>>
    /\ ll_nodes = <<>> /\ head = 0 /\ ll_ref = <<>> /\ ll_last = <<>> /\ ll_calls = 0
    /\ text = <<>> /\ pattern = <<>> /\ strAlg = "none" /\ strResult = <<>>
    /\ m_pc = "none" /\ wgCounter = 0 /\ pn_pc = <<>> /\ pn_i = <<>> /\ printed = <<>> /\ numbersClosed = FALSE /\ closes = 0 /\ gen_pc = "none" /\ gen_i = 0 /\ received = <<>> /\ bufferedCh = <<>> /\ bufferedOut = <<>> /\ snd_pc = <<>> /\ sel_i = 0 /\ messages = <<>>
    /\ e_numbers = <<>> /\ e_x = 0 /\ e_pc = "none" /\ e_i = 0 /\ e_stmt = 0 /\ deferred = <<>> /\ panicking = "nil" /\ e_recovered = "nil" /\ e_out = <<>>
    /\ l_heap = <<>> /\ firstLogger = 0 /\ l_entry = <<>> /\ l_result = <<>> /\ l_calls = 0
    /\ observers = <<>> /\ temperature = 0 /\ w_updates = <<>> /\ w_last = <<>> /\ w_calls = 0
    /\ activities = <<>> /\ act_before = <<>> /\ selected = <<>> /\ act_alg = "none"
    /\ d_graph = <<>> /\ d_start = 0 /\ d_result = <<>> /\ d_done = FALSE
    /\ b_s = <<>> /\ b_result = <<>> /\ b_done = FALSE
    /\ computers = <<>> /\ builder = <<>> /\ built = <<>>

ConcInit ==
    /\ m_pc = "add" /\ wgCounter = 0
    /\ pn_pc = [k \in Printers |-> "none"]
    /\ pn_i = [k \in Printers |-> 0]
    /\ printed = <<>>
    /\ numbersClosed = FALSE /\ closes = 0 /\ gen_pc = "none" /\ gen_i = 0 /\ received = <<>>
    /\ bufferedCh = <<>> /\ bufferedOut = <<>>
    /\ snd_pc = [k \in Senders |-> "none"]
    /\ sel_i = 0 /\ messages = <<>>
    /\ sortInput = <<>> /\ sortResult = <<>> /\ sortAlg = "none"
    /\ searchArr = <<>> /\ searchTarget = 0 /\ searchResult = -1 /\ searchAlg = "none"
    /\ s_items = <<>> /\ s_hist = <<>> /\ q_items = <<>> /\ q_hist = <<>>
    /\ heap = <<>> /\ Root = 0 /\ inserted = <<>> /\ treeMode = "free" /\ searched = <<>>
    /\ vertices = <<>> /\ traversal = <<>>
    /\ ll_nodes = <<>> /\ head = 0 /\ ll_ref = <<>> /\ ll_last = <<>> /\ ll_calls = 0
    /\ text = <<>> /\ pattern = <<>> /\ strAlg = "none" /\ strResult = <<>>
    /\ instance = 0 /\ onceDone = FALSE /\ onceM = 0 /\ objects = <<>> /\ initRuns = 0 /\ sg_pc = <<>> /\ sg_ref = <<>> /\ sg_tmp = <<>> /\ sg_val = <<>> /\ returned = {}
    /\ e_numbers = <<>> /\ e_x = 0 /\ e_pc = "none" /\ e_i = 0 /\ e_stmt = 0 /\ deferred = <<>> /\ panicking = "nil" /\ e_recovered = "nil" /\ e_out = <<>>
    /\ l_heap = <<>> /\ firstLogger = 0 /\ l_entry = <<>> /\ l_result = <<>> /\ l_calls = 0
    /\ observers = <<>> /\ temperature = 0 /\ w_updates = <<>> /\ w_last = <<>> /\ w_calls = 0
    /\ activities = <<>> /\ act_before = <<>> /\ selected = <<>> /\ act_alg = "none"
    /\ d_graph = <<>> /\ d_start = 0 /\ d_result = <<>> /\ d_done = FALSE
    /\ b_s = <<>> /\ b_result = <<>> /\ b_done = FALSE
    /\ computers = <<>> /\ builder = <<>> /\ built = <<>>

ErrInit ==
    /\ e_numbers \in SeqsUpTo(0..MaxNumber, MaxNumbers) \cup {MainNumbers}
    /\ e_x \in (-MaxNumber..MaxNumber) \cup {MainX}
    /\ e_pc = "divide" /\ e_i = 0 /\ e_stmt = 0
    /\ deferred = <<>> /\ panicking = NoPanic /\ e_recovered = NoPanic /\ e_out = <<>>
    /\ sortInput = <<>> /\ sortResult = <<>> /\ sortAlg = "none"
    /\ searchArr = <<>> /\ searchTarget = 0 /\ searchResult = -1 /\ searchAlg = "none"
    /\ s_items = <<>> /\ s_hist = <<>> /\ q_items = <<>> /\ q_hist = <<>>
    /\ heap = <<>> /\ Root = 0 /\ inserted = <<>> /\ treeMode = "free" /\ searched = <<>>
    /\ vertices = <<>> /\ traversal = <<>>
    /\ ll_nodes = <<>> /\ head = 0 /\ ll_ref = <<>> /\ ll_last = <<>> /\ ll_calls = 0
    /\ text = <<>> /\ pattern = <<>> /\ strAlg = "none" /\ strResult = <<>>
    /\ instance = 0 /\ onceDone = FALSE /\ onceM = 0 /\ objects = <<>> /\ initRuns = 0 /\ sg_pc = <<>> /\ sg_ref = <<>> /\ sg_tmp = <<>> /\ sg_val = <<>> /\ returned = {}
    /\ m_pc = "none" /\ wgCounter = 0 /\ pn_pc = <<>> /\ pn_i = <<>> /\ printed = <<>> /\ numbersClosed = FALSE /\ closes = 0 /\ gen_pc = "none" /\ gen_i = 0 /\ received = <<>> /\ bufferedCh = <<>> /\ bufferedOut = <<>> /\ snd_pc = <<>> /\ sel_i = 0 /\ messages = <<>>
    /\ l_heap = <<>> /\ firstLogger = 0 /\ l_entry = <<>> /\ l_result = <<>> /\ l_calls = 0
    /\ observers = <<>> /\ temperature = 0 /\ w_updates = <<>> /\ w_last = <<>> /\ w_calls = 0
    /\ activities = <<>> /\ act_before = <<>> /\ selected = <<>> /\ act_alg = "none"
    /\ d_graph = <<>> /\ d_start = 0 /\ d_result = <<>> /\ d_done = FALSE
    /\ b_s = <<>> /\ b_result = <<>> /\ b_done = FALSE
    /\ computers = <<>> /\ builder = <<>> /\ built = <<>>

LogInit ==
    /\ l_heap = <<>> /\ firstLogger = 0 /\ l_entry = <<>> /\ l_result = <<>> /\ l_calls = 0
    /\ sortInput = <<>> /\ sortResult = <<>> /\ sortAlg = "none"
    /\ searchArr = <<>> /\ searchTarget = 0 /\ searchResult = -1 /\ searchAlg = "none"
    /\ s_items = <<>> /\ s_hist = <<>> /\ q_items = <<>> /\ q_hist = <<>>
    /\ heap = <<>> /\ Root = 0 /\ inserted = <<>> /\ treeMode = "free" /\ searched = <<>>
    /\ vertices = <<>> /\ traversal = <<>>
    /\ ll_nodes = <<>> /\ head = 0 /\ ll_ref = <<>> /\ ll_last = <<>> /\ ll_calls = 0
    /\ text = <<>> /\ pattern = <<>> /\ strAlg = "none" /\ strResult = <<>>
    /\ instance = 0 /\ onceDone = FALSE /\ onceM = 0 /\ objects = <<>> /\ initRuns = 0 /\ sg_pc = <<>> /\ sg_ref = <<>> /\ sg_tmp = <<>> /\ sg_val = <<>> /\ returned = {}
    /\ m_pc = "none" /\ wgCounter = 0 /\ pn_pc = <<>> /\ pn_i = <<>> /\ printed = <<>> /\ numbersClosed = FALSE /\ closes = 0 /\ gen_pc = "none" /\ gen_i = 0 /\ received = <<>> /\ bufferedCh = <<>> /\ bufferedOut = <<>> /\ snd_pc = <<>> /\ sel_i = 0 /\ messages = <<>>
    /\ e_numbers = <<>> /\ e_x = 0 /\ e_pc = "none" /\ e_i = 0 /\ e_stmt = 0 /\ deferred = <<>> /\ panicking = "nil" /\ e_recovered = "nil" /\ e_out = <<>>
    /\ observers = <<>> /\ temperature = 0 /\ w_updates = <<>> /\ w_last = <<>> /\ w_calls = 0
    /\ activities = <<>> /\ act_before = <<>> /\ selected = <<>> /\ act_alg = "none"
    /\ d_graph = <<>> /\ d_start = 0 /\ d_result = <<>> /\ d_done = FALSE
    /\ b_s = <<>> /\ b_result = <<>> /\ b_done = FALSE
    /\ computers = <<>> /\ builder = <<>> /\ built = <<>>

ObsInit ==
    /\ observers = <<>> /\ temperature = 0 /\ w_updates = <<>> /\ w_last = <<>> /\ w_calls = 0
    /\ sortInput = <<>> /\ sortResult = <<>> /\ sortAlg = "none"
    /\ searchArr = <<>> /\ searchTarget = 0 /\ searchResult = -1 /\ searchAlg = "none"
    /\ s_items = <<>> /\ s_hist = <<>> /\ q_items = <<>> /\ q_hist = <<>>
    /\ heap = <<>> /\ Root = 0 /\ inserted = <<>> /\ treeMode = "free" /\ searched = <<>>
    /\ vertices = <<>> /\ traversal = <<>>
    /\ ll_nodes = <<>> /\ head = 0 /\ ll_ref = <<>> /\ ll_last = <<>> /\ ll_calls = 0
    /\ text = <<>> /\ pattern = <<>> /\ strAlg = "none" /\ strResult = <<>>
    /\ instance = 0 /\ onceDone = FALSE /\ onceM = 0 /\ objects = <<>> /\ initRuns = 0 /\ sg_pc = <<>> /\ sg_ref = <<>> /\ sg_tmp = <<>> /\ sg_val = <<>> /\ returned = {}
    /\ m_pc = "none" /\ wgCounter = 0 /\ pn_pc = <<>> /\ pn_i = <<>> /\ printed = <<>> /\ numbersClosed = FALSE /\ closes = 0 /\ gen_pc = "none" /\ gen_i = 0 /\ received = <<>> /\ bufferedCh = <<>> /\ bufferedOut = <<>> /\ snd_pc = <<>> /\ sel_i = 0 /\ messages = <<>>
    /\ e_numbers = <<>> /\ e_x = 0 /\ e_pc = "none" /\ e_i = 0 /\ e_stmt = 0 /\ deferred = <<>> /\ panicking = "nil" /\ e_recovered = "nil" /\ e_out = <<>>
    /\ l_heap = <<>> /\ firstLogger = 0 /\ l_entry = <<>> /\ l_result = <<>> /\ l_calls = 0
    /\ activities = <<>> /\ act_before = <<>> /\ selected = <<>> /\ act_alg = "none"
    /\ d_graph = <<>> /\ d_start = 0 /\ d_result = <<>> /\ d_done = FALSE
    /\ b_s = <<>> /\ b_result = <<>> /\ b_done = FALSE
    /\ computers = <<>> /\ builder = <<>> /\ built = <<>>

GreedyInit ==
    /\ activities \in SeqsUpTo(Activities, MaxActivities) \cup {MainActivities}
    /\ act_before = activities
    /\ selected = <<>> /\ act_alg = "none"
    /\ sortInput = <<>> /\ sortResult = <<>> /\ sortAlg = "none"
    /\ searchArr = <<>> /\ searchTarget = 0 /\ searchResult = -1 /\ searchAlg = "none"
    /\ s_items = <<>> /\ s_hist = <<>> /\ q_items = <<>> /\ q_hist = <<>>
    /\ heap = <<>> /\ Root = 0 /\ inserted = <<>> /\ treeMode = "free" /\ searched = <<>>
    /\ vertices = <<>> /\ traversal = <<>>
    /\ ll_nodes = <<>> /\ head = 0 /\ ll_ref = <<>> /\ ll_last = <<>> /\ ll_calls = 0
    /\ text = <<>> /\ pattern = <<>> /\ strAlg = "none" /\ strResult = <<>>
    /\ instance = 0 /\ onceDone = FALSE /\ onceM = 0 /\ objects = <<>> /\ initRuns = 0 /\ sg_pc = <<>> /\ sg_ref = <<>> /\ sg_tmp = <<>> /\ sg_val = <<>> /\ returned = {}
    /\ m_pc = "none" /\ wgCounter = 0 /\ pn_pc = <<>> /\ pn_i = <<>> /\ printed = <<>> /\ numbersClosed = FALSE /\ closes = 0 /\ gen_pc = "none" /\ gen_i = 0 /\ received = <<>> /\ bufferedCh = <<>> /\ bufferedOut = <<>> /\ snd_pc = <<>> /\ sel_i = 0 /\ messages = <<>>
    /\ e_numbers = <<>> /\ e_x = 0 /\ e_pc = "none" /\ e_i = 0 /\ e_stmt = 0 /\ deferred = <<>> /\ panicking = "nil" /\ e_recovered = "nil" /\ e_out = <<>>
    /\ l_heap = <<>> /\ firstLogger = 0 /\ l_entry = <<>> /\ l_result = <<>> /\ l_calls = 0
    /\ observers = <<>> /\ temperature = 0 /\ w_updates = <<>> /\ w_last = <<>> /\ w_calls = 0
    /\ d_graph = <<>> /\ d_start = 0 /\ d_result = <<>> /\ d_done = FALSE
    /\ b_s = <<>> /\ b_result = <<>> /\ b_done = FALSE
    /\ computers = <<>> /\ builder = <<>> /\ built = <<>>

DijInit ==
    /\ \E p \in DijkstraInputs \cup {<<MainGraph, 0>>} : d_graph = p[1] /\ d_start = p[2]
    /\ d_result = <<>> /\ d_done = FALSE
    /\ sortInput = <<>> /\ sortResult = <<>> /\ sortAlg = "none"
    /\ searchArr = <<>> /\ searchTarget = 0 /\ searchResult = -1 /\ searchAlg = "none"
    /\ s_items = <<>> /\ s_hist = <<>> /\ q_items = <<>> /\ q_hist = <<>>
    /\ heap = <<>> /\ Root = 0 /\ inserted = <<>> /\ treeMode = "free" /\ searched = <<>>
    /\ vertices = <<>> /\ traversal = <<>>
    /\ ll_nodes = <<>> /\ head = 0 /\ ll_ref = <<>> /\ ll_last = <<>> /\ ll_calls = 0
    /\ text = <<>> /\ pattern = <<>> /\ strAlg = "none" /\ strResult = <<>>
    /\ instance = 0 /\ onceDone = FALSE /\ onceM = 0 /\ objects = <<>> /\ initRuns = 0 /\ sg_pc = <<>> /\ sg_ref = <<>> /\ sg_tmp = <<>> /\ sg_val = <<>> /\ returned = {}
    /\ m_pc = "none" /\ wgCounter = 0 /\ pn_pc = <<>> /\ pn_i = <<>> /\ printed = <<>> /\ numbersClosed = FALSE /\ closes = 0 /\ gen_pc = "none" /\ gen_i = 0 /\ received = <<>> /\ bufferedCh = <<>> /\ bufferedOut = <<>> /\ snd_pc = <<>> /\ sel_i = 0 /\ messages = <<>>
    /\ e_numbers = <<>> /\ e_x = 0 /\ e_pc = "none" /\ e_i = 0 /\ e_stmt = 0 /\ deferred = <<>> /\ panicking = "nil" /\ e_recovered = "nil" /\ e_out = <<>>
    /\ l_heap = <<>> /\ firstLogger = 0 /\ l_entry = <<>> /\ l_result = <<>> /\ l_calls = 0
    /\ observers = <<>> /\ temperature = 0 /\ w_updates = <<>> /\ w_last = <<>> /\ w_calls = 0
    /\ activities = <<>> /\ act_before = <<>> /\ selected = <<>> /\ act_alg = "none"
    /\ b_s = <<>> /\ b_result = <<>> /\ b_done = FALSE
    /\ computers = <<>> /\ builder = <<>> /\ built = <<>>

BrInit ==
    /\ b_s \in SeqsUpTo(BracketChars, MaxBrackets) \cup {testCases[i] : i \in 1..Len(testCases)}
    /\ b_result = <<>> /\ b_done = FALSE
    /\ sortInput = <<>> /\ sortResult = <<>> /\ sortAlg = "none"
    /\ searchArr = <<>> /\ searchTarget = 0 /\ searchResult = -1 /\ searchAlg = "none"
    /\ s_items = <<>> /\ s_hist = <<>> /\ q_items = <<>> /\ q_hist = <<>>
    /\ heap = <<>> /\ Root = 0 /\ inserted = <<>> /\ treeMode = "free" /\ searched = <<>>
    /\ vertices = <<>> /\ traversal = <<>>
    /\ ll_nodes = <<>> /\ head = 0 /\ ll_ref = <<>> /\ ll_last = <<>> /\ ll_calls = 0
    /\ text = <<>> /\ pattern = <<>> /\ strAlg = "none" /\ strResult = <<>>
    /\ instance = 0 /\ onceDone = FALSE /\ onceM = 0 /\ objects = <<>> /\ initRuns = 0 /\ sg_pc = <<>> /\ sg_ref = <<>> /\ sg_tmp = <<>> /\ sg_val = <<>> /\ returned = {}
    /\ m_pc = "none" /\ wgCounter = 0 /\ pn_pc = <<>> /\ pn_i = <<>> /\ printed = <<>> /\ numbersClosed = FALSE /\ closes = 0 /\ gen_pc = "none" /\ gen_i = 0 /\ received = <<>> /\ bufferedCh = <<>> /\ bufferedOut = <<>> /\ snd_pc = <<>> /\ sel_i = 0 /\ messages = <<>>
    /\ e_numbers = <<>> /\ e_x = 0 /\ e_pc = "none" /\ e_i = 0 /\ e_stmt = 0 /\ deferred = <<>> /\ panicking = "nil" /\ e_recovered = "nil" /\ e_out = <<>>
    /\ l_heap = <<>> /\ firstLogger = 0 /\ l_entry = <<>> /\ l_result = <<>> /\ l_calls = 0
    /\ observers = <<>> /\ temperature = 0 /\ w_updates = <<>> /\ w_last = <<>> /\ w_calls = 0
    /\ activities = <<>> /\ act_before = <<>> /\ selected = <<>> /\ act_alg = "none"
    /\ d_graph = <<>> /\ d_start = 0 /\ d_result = <<>> /\ d_done = FALSE
    /\ computers = <<>> /\ builder = <<>> /\ built = <<>>

BldInit ==
    /\ computers = <<ZeroComputer>>
    /\ builder = NewComputerBuilder(1)
    /\ built = <<>>
    /\ sortInput = <<>> /\ sortResult = <<>> /\ sortAlg = "none"
    /\ searchArr = <<>> /\ searchTarget = 0 /\ searchResult = -1 /\ searchAlg = "none"
    /\ s_items = <<>> /\ s_hist = <<>> /\ q_items = <<>> /\ q_hist = <<>>
    /\ heap = <<>> /\ Root = 0 /\ inserted = <<>> /\ treeMode = "free" /\ searched = <<>>
    /\ vertices = <<>> /\ traversal = <<>>
    /\ ll_nodes = <<>> /\ head = 0 /\ ll_ref = <<>> /\ ll_last = <<>> /\ ll_calls = 0
    /\ text = <<>> /\ pattern = <<>> /\ strAlg = "none" /\ strResult = <<>>
    /\ instance = 0 /\ onceDone = FALSE /\ onceM = 0 /\ objects = <<>> /\ initRuns = 0 /\ sg_pc = <<>> /\ sg_ref = <<>> /\ sg_tmp = <<>> /\ sg_val = <<>> /\ returned = {}
    /\ m_pc = "none" /\ wgCounter = 0 /\ pn_pc = <<>> /\ pn_i = <<>> /\ printed = <<>> /\ numbersClosed = FALSE /\ closes = 0 /\ gen_pc = "none" /\ gen_i = 0 /\ received = <<>> /\ bufferedCh = <<>> /\ bufferedOut = <<>> /\ snd_pc = <<>> /\ sel_i = 0 /\ messages = <<>>
    /\ e_numbers = <<>> /\ e_x = 0 /\ e_pc = "none" /\ e_i = 0 /\ e_stmt = 0 /\ deferred = <<>> /\ panicking = "nil" /\ e_recovered = "nil" /\ e_out = <<>>
    /\ l_heap = <<>> /\ firstLogger = 0 /\ l_entry = <<>> /\ l_result = <<>> /\ l_calls = 0
    /\ observers = <<>> /\ temperature = 0 /\ w_updates = <<>> /\ w_last = <<>> /\ w_calls = 0
    /\ activities = <<>> /\ act_before = <<>> /\ selected = <<>> /\ act_alg = "none"
    /\ d_graph = <<>> /\ d_start = 0 /\ d_result = <<>> /\ d_done = FALSE
    /\ b_s = <<>> /\ b_result = <<>> /\ b_done = FALSE

SpecSort ==
    SortInit /\ [][SortNext]_vars

SpecSearch ==
    SearchInit /\ [][SearchNext]_vars

SpecContainers ==
    ContInit /\ [][ContNext]_vars

SpecTree ==
    TreeInit /\ [][TreeNext]_vars

SpecGraph ==
    GraphInit /\ [][GraphNext]_vars

SpecList ==
    ListInit /\ [][ListNext]_vars

SpecStrings ==
    StrInit /\ [][StrNext]_vars

SpecSingleton ==
    SingleInit /\ [][SingleNext]_vars

SpecConcurrency ==
    ConcInit /\ [][ConcNext]_vars

FairSpecConcurrency ==
    SpecConcurrency /\ ConcFairness

SpecErrors ==
    ErrInit /\ [][ErrNext]_vars

\* the program keeps running until it ends
FairSpecErrors ==
    SpecErrors /\ WF_vars(ErrNext)

SpecLoggers ==
    LogInit /\ [][LogNext]_vars

SpecObserver ==
    ObsInit /\ [][ObsNext]_vars

SpecGreedy ==
    GreedyInit /\ [][GreedyNext]_vars

SpecDijkstra ==
    DijInit /\ [][DijNext]_vars

SpecBrackets ==
    BrInit /\ [][BrNext]_vars

SpecBuilder ==
    BldInit /\ [][BldNext]_vars

\* ================================================================ claims
Range(s) == {s[i] : i \in 1..Len(s)}
Last(s) == s[Len(s)]
Max(S) == CHOOSE x \in S : \A y \in S : y <= x
NonDecreasing(s) == \A i, j \in 1..Len(s) : i < j => s[i] <= s[j]
Count(s, v) == Cardinality({i \in 1..Len(s) : s[i] = v})
IsPermutation(s, t) ==
    /\ Len(s) = Len(t)
    /\ \A v \in Range(s) \cup Range(t) : Count(s, v) = Count(t, v)

\* C1: whichever of BubbleSort, QuickSort, MergeSort and InsertionSort has
\* run, the resulting slice is non-decreasing and is a permutation of the
\* input slice.
C1_SortsCorrect ==
    sortAlg # "none" =>
        /\ NonDecreasing(sortResult)
        /\ IsPermutation(sortResult, sortInput)

\* MergeSort has run on a reverse sorted slice with a duplicate
C1_Witness ==
    /\ sortAlg = "MergeSort"
    /\ sortInput = <<2, 1, 1, 0>>
    /\ sortResult = <<0, 1, 1, 2>>

\* C2: on a non-decreasing slice BinarySearch returns an index holding the
\* target when the target occurs, and -1 exactly when it does not occur.
C2_BinarySearchCorrect ==
    (searchAlg = "BinarySearch" /\ NonDecreasing(searchArr)) =>
        LET occurs == \E i \in 0..(Len(searchArr) - 1) : At(searchArr, i) = searchTarget
        IN  /\ occurs => /\ searchResult \in 0..(Len(searchArr) - 1)
                         /\ At(searchArr, searchResult) = searchTarget
            /\ (searchResult = -1) <=> ~occurs

\* BinarySearch found the target at the last index of a sorted slice
C2_Witness ==
    /\ searchAlg = "BinarySearch"
    /\ searchArr = <<0, 1, 1, 2>>
    /\ searchTarget = 2
    /\ searchResult = 3

\* number of calls of h[a..b] that are op and returned no error
NCalls(h, op, a, b) == Cardinality({i \in a..b : h[i].op = op /\ ~h[i].err})

\* the pushes before call k that no successful Pop before k has matched:
\* a push is unpopped when the calls after it hold as many pushes as pops
Unpopped(h, k) ==
    {j \in 1..(k - 1) : /\ h[j].op = "Push"
                        /\ NCalls(h, "Push", j + 1, k - 1) = NCalls(h, "Pop", j + 1, k - 1)}

\* C3: a successful Pop, and a successful Peek, returns the most recently
\* pushed item that no Pop has returned yet (so a Peek leaves the item for
\* the next Pop); N pushes followed by N pops return the pushed values in
\* reverse order.
C3_StackLIFO ==
    /\ \A k \in 1..Len(s_hist) :
           (s_hist[k].op \in {"Pop", "Peek"} /\ ~s_hist[k].err) =>
               /\ Unpopped(s_hist, k) # {}
               /\ s_hist[k].ret = s_hist[Max(Unpopped(s_hist, k))].arg
    /\ \A k \in 1..(Len(s_hist) - 1) :
           (s_hist[k].op = "Peek" /\ ~s_hist[k].err /\ s_hist[k + 1].op = "Pop") =>
               /\ ~s_hist[k + 1].err
               /\ s_hist[k + 1].ret = s_hist[k].ret
    /\ \A n \in 1..Len(s_hist) :
           (/\ Len(s_hist) = 2 * n
            /\ \A i \in 1..n : s_hist[i].op = "Push"
            /\ \A i \in (n + 1)..(2 * n) : s_hist[i].op = "Pop") =>
               \A i \in 1..n : /\ ~s_hist[n + i].err
                               /\ s_hist[n + i].ret = s_hist[n + 1 - i].arg

\* Push(1), Push(2), Peek, Pop, Pop returned 2, 2, 1
C3_Witness ==
    /\ Len(s_hist) = 5
    /\ [i \in 1..5 |-> s_hist[i].op] = <<"Push", "Push", "Peek", "Pop", "Pop">>
    /\ s_hist[1].arg = 1 /\ s_hist[2].arg = 2
    /\ s_hist[3].ret = 2 /\ s_hist[4].ret = 2 /\ s_hist[5].ret = 1
    /\ s_items = <<>>

\* the enqueues before call k, oldest first
Enqueues(h, k) == {j \in 1..(k - 1) : h[j].op = "Enqueue"}
\* the n-th enqueue of h
NthEnqueue(h, n) ==
    CHOOSE j \in 1..Len(h) : h[j].op = "Enqueue" /\ NCalls(h, "Enqueue", 1, j) = n

\* C4: a successful Dequeue, and a successful Peek, returns the oldest
\* enqueued item that no Dequeue has returned yet (so a Peek leaves the item
\* for the next Dequeue); N enqueues followed by N dequeues return the
\* values in insertion order.
C4_QueueFIFO ==
    /\ \A k \in 1..Len(q_hist) :
           (q_hist[k].op \in {"Dequeue", "Peek"} /\ ~q_hist[k].err) =>
               LET done == NCalls(q_hist, "Dequeue", 1, k - 1)
               IN  /\ Cardinality(Enqueues(q_hist, k)) > done
                   /\ q_hist[k].ret = q_hist[NthEnqueue(q_hist, done + 1)].arg
    /\ \A k \in 1..(Len(q_hist) - 1) :
           (q_hist[k].op = "Peek" /\ ~q_hist[k].err /\ q_hist[k + 1].op = "Dequeue") =>
               /\ ~q_hist[k + 1].err
               /\ q_hist[k + 1].ret = q_hist[k].ret
    /\ \A n \in 1..Len(q_hist) :
           (/\ Len(q_hist) = 2 * n
            /\ \A i \in 1..n : q_hist[i].op = "Enqueue"
            /\ \A i \in (n + 1)..(2 * n) : q_hist[i].op = "Dequeue") =>
               \A i \in 1..n : /\ ~q_hist[n + i].err
                               /\ q_hist[n + i].ret = q_hist[i].arg

\* Enqueue(1), Enqueue(2), Peek, Dequeue, Dequeue returned 1, 1, 2
C4_Witness ==
    /\ Len(q_hist) = 5
    /\ [i \in 1..5 |-> q_hist[i].op] = <<"Enqueue", "Enqueue", "Peek", "Dequeue", "Dequeue">>
    /\ q_hist[1].arg = 1 /\ q_hist[2].arg = 2
    /\ q_hist[3].ret = 1 /\ q_hist[4].ret = 1 /\ q_hist[5].ret = 2
    /\ q_items = <<>>

\* C5: a Pop on the empty stack and a Dequeue on the empty queue return an
\* error and leave the container as it was, with Size() = 0.
C5_EmptyRemoveIsError ==
    [][/\ (Pop /\ StackIsEmpty(s_items)) =>
              /\ Last(s_hist').err
              /\ s_items' = s_items
              /\ StackSize(s_items') = 0
       /\ (Dequeue /\ QueueIsEmpty(q_items)) =>
              /\ Last(q_hist').err
              /\ q_items' = q_items
              /\ QueueSize(q_items') = 0]_vars

\* a Pop failed on a stack that Push and Pop had emptied, and a Dequeue
\* failed on a queue that was never filled
C5_Witness ==
    /\ Len(s_hist) = 3
    /\ [i \in 1..3 |-> s_hist[i].op] = <<"Push", "Pop", "Pop">>
    /\ ~s_hist[2].err /\ s_hist[3].err
    /\ StackSize(s_items) = 0
    /\ Len(q_hist) = 1
    /\ q_hist[1].op = "Dequeue" /\ q_hist[1].err
    /\ QueueSize(q_items) = 0

\* C6: Size() is the number of Push (Enqueue) calls minus the number of
\* Pop (Dequeue) calls that returned no error, IsEmpty() holds exactly when
\* Size() = 0, and a Peek or a failed Pop or Dequeue leaves Size() as it was.
C6_SizeCounts ==
    StackSize(s_items) = NCalls(s_hist, "Push", 1, Len(s_hist))
                             - NCalls(s_hist, "Pop", 1, Len(s_hist))
    /\ QueueSize(q_items) = NCalls(q_hist, "Enqueue", 1, Len(q_hist))
                                - NCalls(q_hist, "Dequeue", 1, Len(q_hist))
    /\ (StackIsEmpty(s_items) <=> StackSize(s_items) = 0)
    /\ (QueueIsEmpty(q_items) <=> QueueSize(q_items) = 0)

C6_SizeFrame ==
    /\ (Peek \/ (Pop /\ Last(s_hist').err)) => StackSize(s_items') = StackSize(s_items)
    /\ (QPeek \/ (Dequeue /\ Last(q_hist').err)) => QueueSize(q_items') = QueueSize(q_items)

C6_SizeIsPushesMinusPops == []C6_SizeCounts /\ [][C6_SizeFrame]_vars

\* two pushes, a pop and a peek left one item; an enqueue left one item
C6_Witness ==
    /\ Len(s_hist) = 4
    /\ [i \in 1..4 |-> s_hist[i].op] = <<"Push", "Push", "Pop", "Peek">>
    /\ StackSize(s_items) = 1
    /\ Len(q_hist) = 1
    /\ q_hist[1].op = "Enqueue"
    /\ QueueSize(q_items) = 1

\* the nodes of the subtree rooted at node (none for nil)
RECURSIVE Subtree(_, _)
Subtree(h, node) ==
    IF node = 0
    THEN {}
    ELSE ({node} \cup Subtree(h, h[node].Left)) \cup Subtree(h, h[node].Right)

Descendants(h, node) == Subtree(h, h[node].Left) \cup Subtree(h, h[node].Right)

\* C7: in the tree built by Insert calls, every value in a node's left
\* subtree is strictly less than the node's value and every value in its
\* right subtree is strictly greater.
C7_StrictOrdering ==
    \A node \in 1..Len(heap) :
        /\ \A l \in Subtree(heap, heap[node].Left) : heap[l].Value < heap[node].Value
        /\ \A r \in Subtree(heap, heap[node].Right) : heap[r].Value > heap[node].Value

\* C8: InorderTraversal returns the inserted values in non-decreasing
\* order, and [1,3,4,5,6,7,8] after main has inserted 5,3,7,1,4,6,8.
C8_InorderSorted ==
    LET result == InorderTraversal(heap, Root)
    IN  /\ NonDecreasing(result)
        /\ IsPermutation(result, inserted)
        /\ inserted = <<5, 3, 7, 1, 4, 6, 8>> => result = <<1, 3, 4, 5, 6, 7, 8>>

\* main has inserted its seven values
C8_Witness ==
    /\ treeMode = "main"
    /\ inserted = <<5, 3, 7, 1, 4, 6, 8>>
    /\ InorderTraversal(heap, Root) = <<1, 3, 4, 5, 6, 7, 8>>

NoDuplicates(s) == \A i, j \in 1..Len(s) : i # j => s[i] # s[j]
Position(s, x) == CHOOSE i \in 1..Len(s) : s[i] = x

\* C9: after n Insert calls each traversal returns n values that are a
\* permutation of the inserted values, visiting every node exactly once;
\* preorder lists a node before its descendants, postorder after them.
C9_TraversalsVisitOnce ==
    LET n    == Len(inserted)
        ino  == inorderRecursive(heap, Root)
        pre  == preorderRecursive(heap, Root)
        post == postorderRecursive(heap, Root)
    IN  /\ Len(heap) = n
        /\ \A nodes \in {ino, pre, post} :
               /\ NoDuplicates(nodes)
               /\ Range(nodes) = 1..n
        /\ \A result \in {InorderTraversal(heap, Root),
                          PreorderTraversal(heap, Root),
                          PostorderTraversal(heap, Root)} :
               /\ Len(result) = n
               /\ IsPermutation(result, inserted)
        /\ PreorderTraversal(heap, Root) = NodeValues(heap, pre)
        /\ PostorderTraversal(heap, Root) = NodeValues(heap, post)
        /\ \A node \in 1..n : \A d \in Descendants(heap, node) :
               /\ Position(pre, node) < Position(pre, d)
               /\ Position(post, node) > Position(post, d)

\* a tree of four nodes with a repeated value and a node with two children
C9_Witness ==
    /\ inserted = <<2, 1, 3, 2>>
    /\ PreorderTraversal(heap, Root) = <<2, 1, 3, 2>>
    /\ PostorderTraversal(heap, Root) = <<1, 2, 3, 2>>
    /\ InorderTraversal(heap, Root) = <<1, 2, 2, 3>>

\* C10: Search(v) is true exactly when v is one of the inserted values
\* (false on the empty tree), and a Search leaves the tree as it was.
C10_SearchResult ==
    /\ \A v \in TreeValues \cup {4, 9} : Search(heap, Root, v) <=> v \in Range(inserted)
    /\ searched # <<>> => (searched[2] <=> searched[1] \in Range(inserted))

C10_SearchFrame ==
    (\E v \in TreeValues \cup {4, 9} : TreeSearch(v)) => (heap' = heap /\ Root' = Root)

C10_SearchFindsInserted == []C10_SearchResult /\ [][C10_SearchFrame]_vars

\* main found 4 in the tree of its seven values
C10_Witness ==
    /\ inserted = <<5, 3, 7, 1, 4, 6, 8>>
    /\ searched = <<4, TRUE>>

\* C11: for all vertices u and v, v occurs in u's adjacency list as often as
\* u occurs in v's, and an AddVertex of a vertex the graph already holds
\* leaves the map as it was.
C11_Symmetric ==
    \A u, v \in Vertices :
        Count(adj(vertices, u), v) = Count(adj(vertices, v), u)

C11_AddVertexFrame ==
    \A vertex \in Vertices :
        (GAddVertex(vertex) /\ vertex \in DOMAIN vertices) => vertices' = vertices

C11_GraphUndirected == []C11_Symmetric /\ [][C11_AddVertexFrame]_vars

\* a self-loop, a repeated edge and an edge to a vertex never added
C11_Witness ==
    /\ DOMAIN vertices = {0, 1}
    /\ vertices[0] = <<0, 0, 1, 1>>
    /\ vertices[1] = <<0, 0>>

\* the vertices an edge path leads to from start
RECURSIVE Reach(_, _)
Reach(m, S) ==
    LET T == S \cup {v \in Vertices : \E u \in S : v \in Range(adj(m, u))}
    IN  IF T = S THEN S ELSE Reach(m, T)

\* the vertices at most k edges away from start
RECURSIVE Ball(_, _, _)
Ball(m, start, k) ==
    IF k = 0
    THEN {start}
    ELSE LET B == Ball(m, start, k - 1)
         IN  B \cup {v \in Vertices : \E u \in B : v \in Range(adj(m, u))}

Distance(m, start, v) ==
    CHOOSE k \in 0..Cardinality(Vertices) :
        /\ v \in Ball(m, start, k)
        /\ \A j \in 0..(k - 1) : v \notin Ball(m, start, j)

C13_ListMatchesReference ==
    /\ Chain(ll_nodes, head) = ll_ref
    /\ ll_last # <<>> =>
           /\ ll_last.ret <=> ll_last.data \in Range(ll_last.before)
           /\ ~ll_last.ret => Chain(ll_nodes, head) = ll_last.before

\* Delete(1) removed the head of 1 -> 2 -> 1 and kept the later 1
C13_Witness ==
    /\ ll_last # <<>>
    /\ ll_last = [data |-> 1, ret |-> TRUE, before |-> <<1, 2, 1>>]
    /\ Chain(ll_nodes, head) = <<2, 1>>

\* the start indices at which pat occurs in txt
Occurrences(txt, pat) ==
    {i \in 0..(Len(txt) - Len(pat)) : Slice(txt, i, i + Len(pat)) = pat}

StrictlyAscending(s) == \A i, j \in 1..Len(s) : i < j => s[i] < s[j]

\* C14: for a non-empty pattern KMPSearch returns, ascending and without
\* duplicates, exactly the start indices at which the pattern occurs in the
\* text, overlapping occurrences included; [0,9,13] for the strings of main.
C14_KMPFindsAllOccurrences ==
    (strAlg = "KMPSearch" /\ pattern # <<>>) =>
        /\ ~strResult.panic
        /\ StrictlyAscending(strResult.matches)
        /\ Range(strResult.matches) = Occurrences(text, pattern)
        /\ <<text, pattern>> = <<Bytes(<<"A", "A", "B", "A", "A", "C", "A", "A", "D", "A", "A", "B", "A", "A", "A", "B", "A", "A">>),
                                 Bytes(<<"A", "A", "B", "A">>)>>
               => strResult.matches = <<0, 9, 13>>

\* KMPSearch found the three overlapping occurrences of AA in AAAA
C14_Witness ==
    /\ strAlg = "KMPSearch"
    /\ text = <<65, 65, 65, 65>>
    /\ pattern = <<65, 65>>
    /\ strResult.matches = <<0, 1, 2>>

\* the least number of edits over all ways to edit a into b from left to
\* right: delete the first byte of a, insert the first byte of b, or keep or
\* substitute the first byte of a for the first byte of b
RECURSIVE MinEdits(_, _)
MinEdits(a, b) ==
    IF a = <<>> THEN Len(b)
    ELSE IF b = <<>> THEN Len(a)
    ELSE LET del == 1 + MinEdits(Tail(a), b)
             ins == 1 + MinEdits(a, Tail(b))
             sub == (IF Head(a) = Head(b) THEN 0 ELSE 1) + MinEdits(Tail(a), Tail(b))
         IN  CHOOSE d \in {del, ins, sub} : \A e \in {del, ins, sub} : d <= e

\* C15: LevenshteinDistance(s1, s2) is the minimum number of single-byte
\* insertions, deletions and substitutions that turn s1 into s2, is 0
\* exactly when s1 = s2, is the same for (s2, s1), and is 3 for kitten and
\* sitting.
C15_LevenshteinIsMinEdits ==
    strAlg = "LevenshteinDistance" =>
        /\ strResult = MinEdits(text, pattern)
        /\ (strResult = 0) <=> (text = pattern)
        /\ strResult = LevenshteinDistance(pattern, text)
        /\ <<text, pattern>> = <<Bytes(<<"k", "i", "t", "t", "e", "n">>),
                                 Bytes(<<"s", "i", "t", "t", "i", "n", "g">>)>>
               => strResult = 3

\* main computed the distance of kitten and sitting
C15_Witness ==
    /\ strAlg = "LevenshteinDistance"
    /\ text = Bytes(<<"k", "i", "t", "t", "e", "n">>)
    /\ pattern = Bytes(<<"s", "i", "t", "t", "i", "n", "g">>)
    /\ strResult = 3


\* the references the goroutines hold from their GetInstance calls
References == UNION {Range(sg_ref[g]) : g \in Goroutines}

\* C16: under every interleaving of concurrent GetInstance calls the
\* initialising function runs at most once and has run exactly once when a
\* call returns, no call returns nil, every call (concurrent or later)
\* returns the same instance, and the count read through any returned
\* reference is the same.
C16_SingletonOnce ==
    /\ initRuns <= 1
    /\ returned # {} => initRuns = 1
    /\ 0 \notin returned
    /\ returned \subseteq {instance}
    /\ References \subseteq {instance}
    /\ \A r1, r2 \in References : GetCount(r1) = GetCount(r2)

\* two goroutines have each got the instance twice after racing through
\* once.Do, and one of them has changed the count
C16_Witness ==
    /\ initRuns = 1
    /\ \E g, h \in Goroutines :
           /\ g # h
           /\ sg_ref[g] = <<instance, instance>>
           /\ sg_ref[h] = <<instance, instance>>
           /\ sg_val[g] > 0
    /\ \A r \in References : GetCount(r) > 0

\* main has returned from wg.Wait()
PastWait == m_pc \notin {"add", "go1", "go2", "wait"}

\* the numbers of printed that goroutine k prints, in the order printed
OwnPrints(k) ==
    LET own(x) == x \in PrintArgs[k].from..PrintArgs[k].to
    IN  SelectSeq(printed, own)

C17_Safe ==
    /\ wgCounter >= 0
    /\ \A k \in Printers : pn_pc[k] # "panic"
    /\ \A k \in Printers : \A j \in 1..Len(OwnPrints(k)) :
           OwnPrints(k)[j] = PrintArgs[k].from + j - 1
    /\ PastWait =>
           /\ \A k \in Printers : pn_pc[k] = "exit"
           /\ Len(printed) = 6
           /\ Range(printed) = 1..6

\* C17: main does not pass wg.Wait() before both printNumbers goroutines
\* have finished and called wg.Done(): all of 1..6 are printed by then, each
\* goroutine prints its range in ascending order, the counter of the
\* WaitGroup is never negative, and wg.Wait() eventually returns.
C17_WaitGroupDemo ==
    /\ []C17_Safe
    /\ <>PastWait

\* main has passed wg.Wait() after the two goroutines printed alternately,
\* the second one first
C17_Witness ==
    /\ m_pc = "goGenerate"
    /\ printed = <<4, 1, 5, 2, 6, 3>>
    /\ wgCounter = 0

\* main has left the range loop over numbers
PastRange == PastWait /\ m_pc \notin {"goGenerate", "range"}

\* the sends on numbers that generateNumbers has completed
SendsCompleted ==
    IF gen_pc = "none" THEN 0
    ELSE IF gen_pc = "sleep" THEN gen_i
    ELSE gen_i - 1

C18_Safe ==
    /\ Len(received) <= 5
    /\ \A j \in 1..Len(received) : received[j] = j
    /\ SendsCompleted = Len(received)
    /\ gen_pc # "panic"
    /\ closes <= 1
    /\ numbersClosed => closes = 1 /\ gen_pc = "exit" /\ received = <<1, 2, 3, 4, 5>>
    /\ PastRange => numbersClosed /\ received = <<1, 2, 3, 4, 5>>

\* C18: the range loop of main receives exactly 1, 2, 3, 4, 5 in this
\* order, a send completes only together with its receive, the channel is
\* closed exactly once, after the last send, and the loop ends once the
\* channel is closed.
C18_UnbufferedChannelDemo ==
    /\ []C18_Safe
    /\ numbersClosed ~> PastRange
    /\ <>PastRange

\* the channel is closed after the fifth number was received and main is
\* about to leave the range loop
C18_Witness ==
    /\ m_pc = "range"
    /\ numbersClosed
    /\ closes = 1
    /\ received = <<1, 2, 3, 4, 5>>

C19_Safe ==
    /\ Len(messages) <= 2
    /\ \A i, j \in 1..Len(messages) : messages[i] = messages[j] => i = j
    /\ m_pc = "end" =>
           /\ Len(messages) = 2
           /\ Range(messages) = {"Message from channel 1", "Message from channel 2"}
           /\ \A k \in Senders : snd_pc[k] = "exit"

\* C19: the select loop receives exactly two messages, one from ch1 and one
\* from ch2 in either order, and then main ends with no sender goroutine
\* left blocked on its send.
C19_SelectDemo ==
    /\ []C19_Safe
    /\ <>(m_pc = "end")

\* main has ended after select took the message of ch2 before that of ch1
C19_Witness ==
    /\ m_pc = "end"
    /\ messages = <<"Message from channel 2", "Message from channel 1">>
    /\ \A k \in Senders : snd_pc[k] = "exit"


\* what the program has printed, formats only
Formats == {e_out[j].format : j \in 1..Len(e_out)}

C20_Safe ==
    /\ e_pc # "crashed"
    /\ "This won't be printed" \notin Formats
    /\ e_recovered # NoPanic =>
           /\ e_recovered = "something went wrong!"
           /\ e_pc \in {"deferred", "exited"}
           /\ MainTail[e_stmt].op = "panic"
           /\ Last(e_out) = Line("Recovered from panic: %v\n", <<"something went wrong!">>)
    /\ e_pc = "exited" => e_recovered = "something went wrong!" /\ panicking = NoPanic

\* C20: the panic of main is caught by the deferred function: it runs
\* after the panic, recover returns "something went wrong!", the statement
\* after the panic is never executed, and the program ends normally, not
\* with a crash.
C20_PanicRecovered ==
    /\ []C20_Safe
    /\ <>(e_pc = "exited")

\* main has ended after the deferred function recovered the panic, for the
\* numbers and the argument of main
C20_Witness ==
    /\ e_pc = "exited"
    /\ e_numbers = MainNumbers /\ e_x = MainX
    /\ e_recovered = "something went wrong!"
    /\ Len(e_out) = 7


\* the kinds of the loggers from logger l along next
RECURSIVE LoggerKinds(_, _)
LoggerKinds(loggers, l) ==
    IF l = 0 THEN <<>> ELSE <<loggers[l].kind>> \o LoggerKinds(loggers, loggers[l].next)

\* C21: Log returns "Info: "+Message for INFO, "Debug: "+Message for DEBUG
\* and "Error: "+Message for ERROR, the output of the one handler in the
\* chain Info -> Debug -> Error whose level matches, and the empty string
\* for every other level.
C21_ChainHandlesByLevel ==
    /\ firstLogger # 0 =>
           LoggerKinds(l_heap, firstLogger) = <<"InfoLogger", "DebugLogger", "ErrorLogger">>
    /\ l_calls > 0 =>
           l_result = CASE l_entry.Level = 0 -> <<"I", "n", "f", "o", ":", " ">> \o l_entry.Message
                        [] l_entry.Level = 1 -> <<"D", "e", "b", "u", "g", ":", " ">> \o l_entry.Message
                        [] l_entry.Level = 2 -> <<"E", "r", "r", "o", "r", ":", " ">> \o l_entry.Message
                        [] OTHER -> <<>>

\* an ERROR entry went through the Info and Debug loggers to the Error
\* logger
C21_Witness ==
    /\ l_calls > 0
    /\ l_entry = [Message |-> <<"a", "b">>, Level |-> 2]
    /\ l_result = <<"E", "r", "r", "o", "r", ":", " ", "a", "b">>


\* C22: SetTemperature(t) stores t and calls Update(t) once per current
\* registration, in registration order; RemoveObserver removes only the
\* first registration of the observer, keeps the order of the others, and
\* changes nothing when the observer is not registered.
C22_ObserversNotified ==
    w_last # <<>> =>
        /\ w_last.op = "RegisterObserver" => observers = Append(w_last.before, w_last.arg)
        /\ w_last.op = "RemoveObserver" =>
               /\ observers = RemoveFirst(w_last.before, w_last.arg)
               /\ w_last.arg \notin Range(w_last.before) => observers = w_last.before
               /\ w_last.arg \in Range(w_last.before) => Len(observers) = Len(w_last.before) - 1
        /\ w_last.op = "SetTemperature" =>
               /\ temperature = w_last.arg
               /\ observers = w_last.before
               /\ Len(w_updates) = Len(observers)
               /\ \A k \in 1..Len(observers) :
                      w_updates[k] = [observer |-> observers[k], temperature |-> w_last.arg]

\* with observer 1 registered before and after observer 2,
\* SetTemperature(2) called Update(2) on 1, on 2 and on 1 again
C22_Witness ==
    /\ w_last = [op |-> "SetTemperature", arg |-> 2, before |-> <<1, 2, 1>>]
    /\ temperature = 2
    /\ w_updates = <<[observer |-> 1, temperature |-> 2], [observer |-> 2, temperature |-> 2],
                     [observer |-> 1, temperature |-> 2]>>


\* C23: a function that returns its result leaves the caller's input slice
\* with the same elements in the same order; here for ActivitySelection.
C23_InputUnchanged ==
    act_alg = "ActivitySelection" => activities = act_before


\* C24: for every sorted array, the empty one included, and every target
\* JumpSearch ends without an out-of-range index and returns an index of
\* the target when it is present and -1 when it is absent, as LinearSearch
\* finds it or not.
C24_JumpSearchCorrect ==
    (searchAlg = "JumpSearch" /\ NonDecreasing(searchArr)) =>
        /\ searchResult.panic = "none"
        /\ searchTarget \in Range(searchArr) =>
               /\ searchResult.index \in 0..(Len(searchArr) - 1)
               /\ At(searchArr, searchResult.index) = searchTarget
        /\ searchTarget \notin Range(searchArr) => searchResult.index = -1
        /\ (searchResult.index = -1) <=> (LinearSearch(searchArr, searchTarget) = -1)

\* C25: for every sorted array, equal values included, and every target
\* InterpolationSearch ends without a division by zero or an out-of-range
\* probe, every probe lies within [low, high], and it returns an index of
\* the target when it is present and -1 when it is absent.
C25_InterpolationSearchCorrect ==
    (searchAlg = "InterpolationSearch" /\ NonDecreasing(searchArr)) =>
        /\ searchResult.panic = "none"
        /\ \A k \in 1..Len(searchResult.probes) :
               /\ searchResult.probes[k].low <= searchResult.probes[k].pos
               /\ searchResult.probes[k].pos <= searchResult.probes[k].high
        /\ searchTarget \in Range(searchArr) =>
               /\ searchResult.index \in 0..(Len(searchArr) - 1)
               /\ At(searchArr, searchResult.index) = searchTarget
        /\ searchTarget \notin Range(searchArr) => searchResult.index = -1


\* the hash of s computed directly: the value of s in base 256, modulo 101
RECURSIVE DirectHash(_)
DirectHash(s) ==
    IF s = <<>> THEN 0 ELSE (DirectHash(SubSeq(s, 1, Len(s) - 1)) * 256 + s[Len(s)]) % 101

\* RabinKarp's window hash at every position is in [0, 101) and is the
\* directly computed hash of the window
C26_RollingHashRight ==
    \A k \in 1..Len(strResult.hashes) :
        /\ strResult.hashes[k] \in 0..100
        /\ strResult.hashes[k] = DirectHash(Slice(text, k - 1, k - 1 + Len(pattern)))

\* C26: for every text and every pattern, the empty pattern, the empty
\* text and patterns longer than the text included, RabinKarp and KMPSearch
\* return without a panic and return the same match indices, and the
\* rolling hash of RabinKarp is the directly computed hash of each window.
C26_RabinKarpAgreesWithKMP ==
    strAlg = "RabinKarp" =>
        /\ ~strResult.panic
        /\ ~KMPSearch(text, pattern).panic
        /\ strResult.matches = KMPSearch(text, pattern).matches
        /\ C26_RollingHashRight


\* the least weight of a path from start to each vertex that uses at most
\* rounds edges, 1000000000 where there is none
RECURSIVE PathWeights(_, _, _)
PathWeights(graph, start, rounds) ==
    IF rounds = 0 THEN [v \in 1..Len(graph) |-> IF v = start + 1 THEN 0 ELSE 1000000000]
    ELSE LET prev == PathWeights(graph, start, rounds - 1)
             ways(v) == {prev[p[1]] + graph[p[1]][p[2]].Weight :
                            p \in {q \in (1..Len(graph)) \X (1..Max({Len(graph[x]) : x \in 1..Len(graph)})) :
                                      /\ q[2] <= Len(graph[q[1]])
                                      /\ graph[q[1]][q[2]].To = v - 1
                                      /\ prev[q[1]] < 1000000000}}
         IN  [v \in 1..Len(graph) |->
                 CHOOSE w \in ways(v) \cup {prev[v]} : \A x \in ways(v) \cup {prev[v]} : w <= x]

\* C27: for every graph with non-negative weights, cycles allowed, and
\* every start vertex DijkstraShortestPath returns dist with dist[start]
\* 0, the least path weight for every reachable vertex and 1000000000 for
\* every other, and every entry popped and not skipped as stale carries
\* the final distance of its vertex.
C27_DijkstraShortest ==
    d_done =>
        /\ At(d_result.dist, d_start) = 0
        /\ d_result.dist = PathWeights(d_graph, d_start, Len(d_graph) - 1)
        /\ \A k \in 1..Len(d_result.pops) :
               /\ d_result.pops[k].entry = At(d_result.dist, d_result.pops[k].u)
               /\ d_result.pops[k].d = At(d_result.dist, d_result.pops[k].u)
        /\ d_graph = MainGraph => d_result.dist = <<0, 3, 1, 4, 7>>

\* vertex 1 was reached over the edge of weight 1 and then over the
\* parallel edge of weight 0; its entry with distance 1 was skipped as stale
C27_Witness ==
    /\ d_done
    /\ d_graph = <<<<Edge(1, 1), Edge(1, 0)>>, <<>>>>
    /\ d_start = 0
    /\ d_result.dist = <<0, 0>>
    /\ Len(d_result.pops) = 2


\* how many of the first n characters of s are ch
CountIn(s, ch, n) == Cardinality({i \in 1..n : s[i] = ch})

\* no prefix of s has more ')' than '(' and s has equally many of each
Balanced(s) ==
    /\ \A n \in 0..Len(s) : CountIn(s, ")", n) <= CountIn(s, "(", n)
    /\ CountIn(s, "(", Len(s)) = CountIn(s, ")", Len(s))

\* C28: isValidBrackets(s) is true exactly when the parentheses of s are
\* balanced, every other character ignored; when a ')' arrives with the
\* stack empty it returns false at that character, without ranging over
\* the rest; "((()))" and "(()())" are valid, "(()" and ")(" are not.
C28_BracketsBalanced ==
    b_done =>
        /\ b_result.valid = Balanced(b_s)
        /\ \A n \in 1..Len(b_s) :
               /\ CountIn(b_s, ")", n) > CountIn(b_s, "(", n)
               /\ \A m \in 0..(n - 1) : CountIn(b_s, ")", m) <= CountIn(b_s, "(", m)
               => b_result.read = n
        /\ (\A n \in 0..Len(b_s) : CountIn(b_s, ")", n) <= CountIn(b_s, "(", n))
               => b_result.read = Len(b_s)
        /\ b_s \in {testCases[1], testCases[2]} => b_result.valid
        /\ b_s \in {testCases[3], testCases[4]} => ~b_result.valid

\* "())a": the second ')' finds the stack empty and false is returned at
\* the third character, the fourth is not ranged over
C28_Witness ==
    /\ b_done
    /\ b_s = <<"(", ")", ")", "a">>
    /\ b_result = [valid |-> FALSE, read |-> 3]


\* C29: the Computer returned by BuildGamingPC holds CPU "Intel i9", RAM
\* 32, Storage 2000, GPU "RTX 4080", it still holds them when
\* BuildOfficePC has later been called on the same Director, and the two
\* calls returned distinct Computer objects.
C29_BuildsIndependent ==
    \A i \in 1..Len(built) :
        built[i].op = "BuildGamingPC" =>
            /\ built[i].fields = Computer("Intel i9", 32, 2000, "RTX 4080", TRUE)
            /\ i < Len(built) /\ built[Len(built)].op = "BuildOfficePC" =>
                   /\ computers[built[i].ref].CPU = "Intel i9"
                   /\ computers[built[i].ref].RAM = 32
                   /\ computers[built[i].ref].Storage = 2000
                   /\ computers[built[i].ref].GPU = "RTX 4080"
                   /\ built[Len(built)].ref # built[i].ref


\* C30: when every goroutine has made its one IncrementCount call on the
\* instance, whatever the interleaving of the reads and writes of count,
\* GetCount is the number of goroutines and the values returned are
\* exactly 1..NumGoroutines, none of them twice.
C30_NoLostUpdates ==
    (\A g \in Goroutines : sg_pc[g] = "done") =>
        /\ GetCount(instance) = NumGoroutines
        /\ {sg_val[g] : g \in Goroutines} = 1..NumGoroutines

====
